---- MODULE Spec2Model ----
(***************************************************************************)
(* pg-switcher-sdk: the payment / payout gateway contracts, the provider   *)
(* adapters (razorpay, paytm, razorpayx, paytm_payout, manual) and the two *)
(* dynamic switchers that resolve the active gateway on every call.        *)
(*                                                                         *)
(* Go values are modelled as records: a nil pointer / nil error / nil map  *)
(* is [kind |-> "nil"], an error is a record carrying its message, the     *)
(* value interpolated into it and the error it wraps (%w).  Byte strings   *)
(* that are JSON documents are modelled by their decoding (or "invalid"),  *)
(* and an HMAC by the triple (encoding, key, message).                     *)
(***************************************************************************)
EXTENDS Naturals, Sequences, FiniteSets, TLC

VARIABLES
    gateways,        \* DynamicPaymentSwitcher.gateways : key -> PaymentGateway
    payoutGateways,  \* DynamicPayoutSwitcher.gateways  : key -> PayoutGateway
    store,           \* the external configuration the two resolvers read
    calls,           \* one record per execution context that calls the switchers
    cancelled,       \* the execution contexts whose context.Context is cancelled
    payouts          \* history of the payout calls issued and of the payout
                     \* requests the adapters received (kept when .on)

vars == <<gateways, payoutGateways, store, calls, cancelled, payouts>>

-----------------------------------------------------------------------------
(* Go values *)

Nil == [kind |-> "nil"]

NoErr == Nil

\* fmt.Errorf(msg, text) / fmt.Errorf(msg + ": %w", cause)
Errorf(msg, text, cause) ==
    [kind |-> "error", msg |-> msg, text |-> text, cause |-> cause]

Str(s) == [kind |-> "str", s |-> s]

BoolVal(b) == [kind |-> "bool", b |-> b]

\* a map[string]interface{} as its set of <<key, value>> pairs
MapVal(pairs) == [kind |-> "map", pairs |-> pairs]

\* a (value, error) pair as a Go method returns it
Ret(val, err) == [val |-> val, err |-> err]

\* hex.EncodeToString(hmac(sha256, key, msg)) / base64 of the same
Hmac(enc, key, data) ==
    [kind |-> "mac", enc |-> enc, key |-> key, data |-> data]

\* m[k] on a Go map[string]string: the zero value "" for a missing key
MapGet(m, k) == IF k \in DOMAIN m THEN m[k] ELSE Str("")

-----------------------------------------------------------------------------
(* JSON documents, by their decoding *)

JInvalid == [t |-> "invalid"]

JNull == [t |-> "null"]

JAbsent == [t |-> "absent"]

JArr == [t |-> "arr"]

JStr(s) == [t |-> "str", s |-> s]

JNum(n) == [t |-> "num", n |-> n]

\* f is a function from the member names to JSON values
JObj(f) == [t |-> "obj", f |-> f]

\* v[k] followed by a type assertion to map[string]interface{} / string
Member(v, k) ==
    IF v.t = "obj" /\ k \in DOMAIN v.f THEN v.f[k] ELSE JAbsent

\* json.Unmarshal stores nothing for null or a missing member
Unset(v) == v.t \in {"absent", "null"}

JEmptyObj == JObj([k \in {} |-> JNull])

\* strings.HasPrefix / strings.HasSuffix
HasPrefix(s, p) ==
    Len(s) >= Len(p) /\ SubSeq(s, 1, Len(p)) = p

HasSuffix(s, p) ==
    Len(s) >= Len(p) /\ SubSeq(s, Len(s) - Len(p) + 1, Len(s)) = p

-----------------------------------------------------------------------------
(* gateway.go: the payment value objects *)

WebhookEventPaymentSuccess == "payment.success"
WebhookEventPaymentFailed == "payment.failed"
WebhookEventOrderPaid == "order.paid"
WebhookEventRefundSuccess == "refund.success"
WebhookEventRefundFailed == "refund.failed"
WebhookEventDisputeCreated == "dispute.created"
WebhookEventDisputeWon == "dispute.won"
WebhookEventDisputeLost == "dispute.lost"
WebhookEventDisputeClosed == "dispute.closed"
WebhookEventUnknown == "unknown"

CreateOrderResponse(id, amount, currency, extra) ==
    [kind |-> "CreateOrderResponse", GatewayOrderID |-> id, Amount |-> amount,
     Currency |-> currency, Notes |-> {}, Extra |-> extra]

PaymentStatus(orderID, status, paid) ==
    [kind |-> "PaymentStatus", GatewayOrderID |-> orderID,
     GatewayPaymentID |-> "", Status |-> status, Paid |-> paid]

RefundResponse(id, amount, status) ==
    [kind |-> "RefundResponse", RefundID |-> id, Amount |-> amount,
     Status |-> status]

\* the zero WebhookEvent with the given Type and Raw
WebhookEvent(type, raw) ==
    [kind |-> "WebhookEvent", Type |-> type, GatewayOrderID |-> "",
     GatewayPaymentID |-> "", RefundID |-> "", DisputeID |-> "", Amount |-> 0,
     Currency |-> "", FailureReason |-> "", Raw |-> raw]

-----------------------------------------------------------------------------
(* payout_gateway.go: the payout value objects *)

PayoutWebhookEventProcessed == "payout.processed"
PayoutWebhookEventFailed == "payout.failed"
PayoutWebhookEventReversed == "payout.reversed"
PayoutWebhookEventUnknown == "unknown"

ContactResponse(id) == [kind |-> "ContactResponse", ContactID |-> id]

FundAccountResponse(id) ==
    [kind |-> "FundAccountResponse", FundAccountID |-> id]

PayoutResponse(id, status) ==
    [kind |-> "PayoutResponse", GatewayPayoutID |-> id, Status |-> status]

PayoutStatusResponse(id, status, reason) ==
    [kind |-> "PayoutStatusResponse", GatewayPayoutID |-> id,
     Status |-> status, FailureReason |-> reason]

PayoutWebhookEvent(type, id, reason) ==
    [kind |-> "PayoutWebhookEvent", Type |-> type, GatewayPayoutID |-> id,
     FailureReason |-> reason, Raw |-> JNull]

-----------------------------------------------------------------------------
(* What a provider's API answers to one request: the transport failure (or  *)
(* nil) and the fields of the response body the adapters read.             *)

ProviderOK ==
    [err |-> NoErr, id |-> "id_1", status |-> "paid", resultStatus |-> "S",
     resultMsg |-> "Success", resultCode |-> "0000", txnToken |-> "tok_1",
     txnStatus |-> "TXN_SUCCESS", failure_reason |-> ""]

ProviderDeclined ==
    [err |-> NoErr, id |-> "", status |-> "created", resultStatus |-> "F",
     resultMsg |-> "Declined", resultCode |-> "0330", txnToken |-> "",
     txnStatus |-> "TXN_FAILURE", failure_reason |-> "insufficient funds"]

ProviderDown ==
    [err |-> Errorf("connection refused", "", NoErr), id |-> "",
     status |-> "", resultStatus |-> "", resultMsg |-> "", resultCode |-> "",
     txnToken |-> "", txnStatus |-> "", failure_reason |-> ""]

ProviderReplies == {ProviderOK, ProviderDeclined, ProviderDown}

\* ctx.Err() != nil: the context has been cancelled
Done(ctx) == ctx.id \in cancelled

ContextCanceled == Errorf("context canceled", "", NoErr)

\* http.Client.Do on a request built by http.NewRequestWithContext(ctx, ...):
\* the provider's reply, or the context's error once ctx is cancelled
HttpDo(ctx, rep) ==
    IF Done(ctx) THEN [rep EXCEPT !.err = ContextCanceled] ELSE rep

\* the error json.Unmarshal returns
JsonError == Errorf("json: cannot unmarshal", "", NoErr)

-----------------------------------------------------------------------------
(* razorpay/razorpay.go: the Razorpay payment adapter *)

Razorpay_New(cfg) == [kind |-> "razorpay", cfg |-> cfg]

Razorpay_Name(a) == "razorpay"

Razorpay_CreateOrder(a, ctx, req, rep) ==
    IF rep.err # NoErr
    THEN Ret(Nil, Errorf("razorpay: create order failed", "", rep.err))
    ELSE Ret(CreateOrderResponse(rep.id, req.Amount, req.Currency, {}), NoErr)

Razorpay_VerifyPayment(a, ctx, req, rep) ==
    LET data == req.GatewayOrderID \o "|" \o req.GatewayPaymentID
        expected == Hmac("hex", a.cfg.KeySecret, Str(data))
    IN  Ret(BoolVal(req.Signature = expected), NoErr)

Razorpay_GetPaymentStatus(a, ctx, gatewayOrderID, rep) ==
    IF rep.err # NoErr
    THEN Ret(Nil, Errorf("razorpay: fetch order failed", "", rep.err))
    ELSE Ret(PaymentStatus(gatewayOrderID, rep.status, rep.status = "paid"),
             NoErr)

Razorpay_InitiateRefund(a, ctx, req, rep) ==
    IF rep.err # NoErr
    THEN Ret(Nil, Errorf("razorpay: refund failed", "", rep.err))
    ELSE Ret(RefundResponse(rep.id, req.Amount, rep.status), NoErr)

Razorpay_VerifyWebhookSignature(a, payload, headers) ==
    LET sig == MapGet(headers, "x-razorpay-signature")
    IN  IF sig = Str("")
        THEN FALSE
        ELSE sig = Hmac("hex", a.cfg.WebhookSecret, payload)

\* payload[key].(map)["entity"].(map), or an empty map
extractEntity(payload, key) ==
    LET obj == Member(payload, key)
        entity == Member(obj, "entity")
    IN  IF obj.t # "obj" THEN JEmptyObj
        ELSE IF entity.t # "obj" THEN JEmptyObj
        ELSE entity

\* json.Unmarshal into struct{Event string; Payload map[string]interface{}}
Razorpay_UnmarshalOK(payload) ==
    /\ payload.t \in {"obj", "null"}
    /\ Unset(Member(payload, "event")) \/ Member(payload, "event").t = "str"
    /\ Unset(Member(payload, "payload")) \/ Member(payload, "payload").t = "obj"

\* v, ok := m[k].(string): the string, or dflt when the assertion fails
StrOr(m, k, dflt) ==
    IF Member(m, k).t = "str" THEN Member(m, k).s ELSE dflt

Razorpay_ParseWebhookEvent(a, payload) ==
    IF ~Razorpay_UnmarshalOK(payload)
    THEN Ret(Nil, Errorf("razorpay: failed to parse webhook", "", JsonError))
    ELSE
    LET Event == StrOr(payload, "event", "")
        Payload == IF Member(payload, "payload").t = "obj"
                   THEN Member(payload, "payload") ELSE JNull
        paymentEntity == extractEntity(Payload, "payment")
        orderEntity == extractEntity(Payload, "order")
        refundEntity == extractEntity(Payload, "refund")
        disputeEntity == extractEntity(Payload, "dispute")
        order0 == StrOr(paymentEntity, "order_id", "")
        order1 == IF order0 = "" THEN StrOr(orderEntity, "id", "") ELSE order0
        pay0 == StrOr(paymentEntity, "id", "")
        isDispute == HasPrefix(Event, "payment.dispute.")
        isRefund == Event \in {"refund.processed", "refund.failed"}
        pay1 == IF isRefund THEN StrOr(refundEntity, "payment_id", pay0)
                ELSE IF isDispute THEN StrOr(disputeEntity, "payment_id", pay0)
                ELSE pay0
        type == CASE Event = "payment.captured" -> WebhookEventPaymentSuccess
                  [] Event = "payment.failed" -> WebhookEventPaymentFailed
                  [] Event = "order.paid" -> WebhookEventOrderPaid
                  [] Event = "refund.processed" -> WebhookEventRefundSuccess
                  [] Event = "refund.failed" -> WebhookEventRefundFailed
                  [] Event = "payment.dispute.created" -> WebhookEventDisputeCreated
                  [] Event = "payment.dispute.won" -> WebhookEventDisputeWon
                  [] Event = "payment.dispute.lost" -> WebhookEventDisputeLost
                  [] Event = "payment.dispute.closed" -> WebhookEventDisputeClosed
                  [] OTHER -> WebhookEventUnknown
        amount == IF isDispute /\ Member(disputeEntity, "amount").t = "num"
                  THEN Member(disputeEntity, "amount").n ELSE 0
        currency == IF isDispute THEN StrOr(disputeEntity, "currency", "") ELSE ""
    IN  Ret([WebhookEvent(type, Payload) EXCEPT
                 !.GatewayOrderID = order1,
                 !.GatewayPaymentID = pay1,
                 !.RefundID = StrOr(refundEntity, "id", ""),
                 !.DisputeID = StrOr(disputeEntity, "id", ""),
                 !.FailureReason = StrOr(paymentEntity, "error_description", ""),
                 !.Amount = amount,
                 !.Currency = currency],
            NoErr)

Razorpay_ClientCredentials(a) == MapVal({<<"key_id", Str(a.cfg.KeyID)>>})

-----------------------------------------------------------------------------
(* paytm/paytm.go: the Paytm payment adapter *)

Paytm_New(cfg) == [kind |-> "paytm", cfg |-> cfg]

Paytm_Name(a) == "paytm"

\* base64(hmac(sha256, key, data))
computeSignature(data, key) == Hmac("b64", key, data)

Paytm_CreateOrder(a, ctx, req, rep) ==
    LET resp == HttpDo(ctx, rep)
    IN  IF resp.err # NoErr
        THEN Ret(Nil, Errorf("paytm: HTTP request", "", resp.err))
        ELSE IF resp.resultStatus # "S"
        THEN Ret(Nil, Errorf("paytm: order creation failed",
                     resp.resultMsg \o " (code " \o resp.resultCode \o ")",
                     NoErr))
        ELSE IF resp.txnToken = ""
        THEN Ret(Nil, Errorf("paytm: empty txn_token in response", "", NoErr))
        ELSE Ret(CreateOrderResponse(req.Receipt, req.Amount, req.Currency,
                     {<<"txn_token", Str(resp.txnToken)>>,
                      <<"mid", Str(a.cfg.MID)>>}),
                 NoErr)

Paytm_VerifyPayment(a, ctx, req, rep) ==
    LET resp == HttpDo(ctx, rep)
    IN  IF resp.err # NoErr
        THEN Ret(BoolVal(FALSE),
                 Errorf("paytm: order status HTTP request", "", resp.err))
        ELSE Ret(BoolVal(resp.txnStatus = "TXN_SUCCESS"), NoErr)

Paytm_GetPaymentStatus(a, ctx, gatewayOrderID, rep) ==
    LET r == Paytm_VerifyPayment(a, ctx,
                 [GatewayOrderID |-> gatewayOrderID, GatewayPaymentID |-> "",
                  Signature |-> Str("")], rep)
    IN  IF r.err # NoErr THEN Ret(Nil, r.err)
        ELSE Ret(PaymentStatus(gatewayOrderID,
                     IF r.val.b THEN "TXN_SUCCESS" ELSE "TXN_FAILURE", r.val.b),
                 NoErr)

Paytm_InitiateRefund(a, ctx, req, rep) ==
    Ret(Nil, Errorf("paytm: refund not yet implemented", "", NoErr))

Paytm_VerifyWebhookSignature(a, payload, headers) ==
    LET sig == MapGet(headers, "x-paytm-signature")
    IN  IF sig = Str("") \/ a.cfg.WebhookSecret = ""
        THEN FALSE
        ELSE sig = computeSignature(payload, a.cfg.WebhookSecret)

\* json.Unmarshal into map[string]interface{}
MapUnmarshalOK(payload) == payload.t \in {"obj", "null"}

\* faulty variant of Paytm_ParseWebhookEvent: the event is built before the
\* payload is decoded and returned beside the decoding failure
Paytm_ParseWebhookEvent_EventOnFailure(a, payload) ==
    IF ~MapUnmarshalOK(payload)
    THEN Ret(WebhookEvent(WebhookEventUnknown, JNull),
             Errorf("paytm: parse webhook", "", JsonError))
    ELSE
    LET body == Member(payload, "body")
        isObj == body.t = "obj"
        status == StrOr(body, "txnStatus", "")
        type == IF isObj /\ status = "TXN_SUCCESS" THEN WebhookEventPaymentSuccess
                ELSE IF isObj /\ status = "TXN_FAILURE" THEN WebhookEventPaymentFailed
                ELSE WebhookEventUnknown
    IN  Ret([WebhookEvent(type, payload) EXCEPT
                 !.GatewayOrderID = IF isObj THEN StrOr(body, "orderId", "") ELSE "",
                 !.GatewayPaymentID = IF isObj THEN StrOr(body, "txnId", "") ELSE ""],
            NoErr)

Paytm_ParseWebhookEvent(a, payload) ==
    IF ~MapUnmarshalOK(payload)
    THEN Ret(Nil, Errorf("paytm: parse webhook", "", JsonError))
    ELSE
    LET body == Member(payload, "body")
        isObj == body.t = "obj"
        status == StrOr(body, "txnStatus", "")
        type == IF isObj /\ status = "TXN_SUCCESS" THEN WebhookEventPaymentSuccess
                ELSE IF isObj /\ status = "TXN_FAILURE" THEN WebhookEventPaymentFailed
                ELSE WebhookEventUnknown
    IN  Ret([WebhookEvent(type, payload) EXCEPT
                 !.GatewayOrderID = IF isObj THEN StrOr(body, "orderId", "") ELSE "",
                 !.GatewayPaymentID = IF isObj THEN StrOr(body, "txnId", "") ELSE ""],
            NoErr)

Paytm_ClientCredentials(a) ==
    MapVal({<<"mid", Str(a.cfg.MID)>>,
            <<"production", BoolVal(a.cfg.Production)>>})

-----------------------------------------------------------------------------
(* razorpayx/razorpayx.go: the RazorpayX payout adapter *)

RazorpayX_New(cfg) == [kind |-> "razorpayx", cfg |-> cfg]

RazorpayX_Name(a) == "razorpayx"

RazorpayX_IsManual(a) == FALSE

\* the message of an SDK error, or a fixed text when it is empty
describeError(err) ==
    IF err = NoErr THEN ""
    ELSE IF err.msg # "" THEN err.msg
    ELSE "unknown error from RazorpayX (empty error message)"

\* the request the adapter sends: path, JSON body and extra headers
RazorpayX_ContactBody(req) ==
    {<<"name", req.Name>>, <<"type", "vendor">>,
     <<"reference_id", req.ReferenceID>>}
        \cup (IF req.Email # "" THEN {<<"email", req.Email>>} ELSE {})
        \cup (IF req.Phone # "" THEN {<<"contact", req.Phone>>} ELSE {})

RazorpayX_CreateContact(a, ctx, req, rep) ==
    IF rep.err # NoErr
    THEN Ret(Nil, Errorf("razorpayx: create contact failed",
                         describeError(rep.err), NoErr))
    ELSE IF rep.id = ""
    THEN Ret(Nil, Errorf("razorpayx: contact response missing id", "", NoErr))
    ELSE Ret(ContactResponse(rep.id), NoErr)

RazorpayX_UpdateContact(a, ctx, contactID, req, rep) ==
    IF rep.err # NoErr
    THEN Ret(Nil, Errorf("razorpayx: update contact failed",
                         describeError(rep.err), NoErr))
    ELSE Ret(ContactResponse(IF rep.id = "" THEN contactID ELSE rep.id), NoErr)

RazorpayX_CreateFundAccount(a, ctx, req, rep) ==
    IF req.AccountType \notin {"vpa", "bank_account"}
    THEN Ret(Nil, Errorf("razorpayx: unknown account type", req.AccountType,
                         NoErr))
    ELSE IF rep.err # NoErr
    THEN Ret(Nil, Errorf("razorpayx: create fund account failed",
                         describeError(rep.err), NoErr))
    ELSE IF rep.id = ""
    THEN Ret(Nil, Errorf("razorpayx: fund account response missing id", "",
                         NoErr))
    ELSE Ret(FundAccountResponse(rep.id), NoErr)

\* the body and the extra headers of POST /v1/payouts
RazorpayX_PayoutRequest(a, req) ==
    [body |-> [account_number |-> a.cfg.AccountNumber,
               fund_account_id |-> req.FundAccountID,
               amount |-> req.Amount, currency |-> req.Currency,
               mode |-> req.Mode, purpose |-> "payout",
               queue_if_low_balance |-> TRUE,
               reference_id |-> req.ReferenceID,
               narration |-> req.Narration],
     headers |-> [ContentType |-> "application/json",
                  XPayoutIdempotency |-> req.ReferenceID]]

RazorpayX_InitiatePayout(a, ctx, req, rep) ==
    IF rep.err # NoErr
    THEN Ret(Nil, Errorf("razorpayx: create payout failed",
                         describeError(rep.err), NoErr))
    ELSE IF rep.id = ""
    THEN Ret(Nil, Errorf("razorpayx: payout response missing id", "", NoErr))
    ELSE Ret(PayoutResponse(rep.id, rep.status), NoErr)

RazorpayX_GetPayoutStatus(a, ctx, gatewayPayoutID, rep) ==
    IF rep.err # NoErr
    THEN Ret(Nil, Errorf("razorpayx: get payout status failed",
                         describeError(rep.err), NoErr))
    ELSE Ret(PayoutStatusResponse(gatewayPayoutID, rep.status,
                                  rep.failure_reason), NoErr)

RazorpayX_VerifyWebhookSignature(a, payload, headers) ==
    LET sig0 == MapGet(headers, "x-razorpayx-signature")
        sig == IF sig0 = Str("")
               THEN MapGet(headers, "x-razorpay-signature") ELSE sig0
    IN  IF sig = Str("") \/ a.cfg.WebhookSecret = ""
        THEN FALSE
        ELSE sig = Hmac("hex", a.cfg.WebhookSecret, payload)

\* a struct-typed member: null, missing or an object
StructOK(v) == Unset(v) \/ v.t = "obj"

\* a string-typed member: null, missing or a string
StringOK(v) == Unset(v) \/ v.t = "str"

\* json.Unmarshal into the typed event/payload/payout/entity envelope
RazorpayX_UnmarshalOK(payload) ==
    LET pl == Member(payload, "payload")
        po == Member(pl, "payout")
        en == Member(po, "entity")
    IN  /\ payload.t \in {"obj", "null"}
        /\ StringOK(Member(payload, "event"))
        /\ StructOK(pl) /\ StructOK(po) /\ StructOK(en)
        /\ StringOK(Member(en, "id"))
        /\ StringOK(Member(en, "failure_reason"))

RazorpayX_ParseWebhookEvent(a, payload) ==
    IF ~RazorpayX_UnmarshalOK(payload)
    THEN Ret(Nil, Errorf("razorpayx: failed to parse webhook", "", JsonError))
    ELSE
    LET Event == StrOr(payload, "event", "")
        Entity == Member(Member(Member(payload, "payload"), "payout"), "entity")
        type == IF Event = "payout.processed" THEN PayoutWebhookEventProcessed
                ELSE IF HasSuffix(Event, "payout.failed")
                        \/ Event = "payout.rejected"
                THEN PayoutWebhookEventFailed
                ELSE IF Event = "payout.reversed" THEN PayoutWebhookEventReversed
                ELSE PayoutWebhookEventUnknown
    IN  Ret(PayoutWebhookEvent(type, StrOr(Entity, "id", ""),
                               StrOr(Entity, "failure_reason", "")), NoErr)

-----------------------------------------------------------------------------
(* paytm_payout: the Paytm Payouts stub adapter *)

PaytmPayout_New(cfg) == [kind |-> "paytm_payout", cfg |-> cfg]

PaytmPayout_Name(a) == "paytm"

PaytmPayout_IsManual(a) == FALSE

PaytmPayout_CreateContact(a, ctx, req, rep) ==
    Ret(Nil, Errorf("paytm_payout: CreateContact not yet implemented", "", NoErr))

PaytmPayout_UpdateContact(a, ctx, contactID, req, rep) ==
    Ret(Nil, Errorf("paytm_payout: UpdateContact not yet implemented", "", NoErr))

PaytmPayout_CreateFundAccount(a, ctx, req, rep) ==
    Ret(Nil, Errorf("paytm_payout: CreateFundAccount not yet implemented", "",
                    NoErr))

PaytmPayout_InitiatePayout(a, ctx, req, rep) ==
    Ret(Nil, Errorf("paytm_payout: InitiatePayout not yet implemented", "",
                    NoErr))

PaytmPayout_GetPayoutStatus(a, ctx, gatewayPayoutID, rep) ==
    Ret(Nil, Errorf("paytm_payout: GetPayoutStatus not yet implemented", "",
                    NoErr))

PaytmPayout_VerifyWebhookSignature(a, payload, headers) ==
    LET sig == MapGet(headers, "x-paytm-signature")
    IN  sig # Str("") /\ a.cfg.MerchantKey # ""

PaytmPayout_ParseWebhookEvent(a, payload) ==
    IF ~MapUnmarshalOK(payload)
    THEN Ret(Nil, Errorf("paytm_payout: failed to parse webhook", "", JsonError))
    ELSE Ret(PayoutWebhookEvent(PayoutWebhookEventUnknown, "", ""), NoErr)

-----------------------------------------------------------------------------
(* manual: the manual payout adapter, no API calls *)

Manual_New == [kind |-> "manual", cfg |-> Nil]

Manual_Name(a) == "manual"

Manual_IsManual(a) == TRUE

Manual_CreateContact(a, ctx, req, rep) ==
    Ret(ContactResponse("manual_" \o req.ReferenceID), NoErr)

Manual_UpdateContact(a, ctx, contactID, req, rep) ==
    Ret(ContactResponse(contactID), NoErr)

Manual_CreateFundAccount(a, ctx, req, rep) ==
    Ret(FundAccountResponse("manual_" \o req.ContactID), NoErr)

Manual_InitiatePayout(a, ctx, req, rep) ==
    Ret(PayoutResponse("manual_" \o req.ReferenceID, "pending_manual"), NoErr)

Manual_GetPayoutStatus(a, ctx, gatewayPayoutID, rep) ==
    Ret(PayoutStatusResponse(gatewayPayoutID, "pending_manual", ""), NoErr)

Manual_VerifyWebhookSignature(a, payload, headers) == FALSE

Manual_ParseWebhookEvent(a, payload) ==
    Ret(Nil, Errorf("manual: no webhooks for manual payout gateway", "", NoErr))

-----------------------------------------------------------------------------
(* Dynamic dispatch through the PaymentGateway / PayoutGateway interfaces *)

Gateway_Name(gw) ==
    CASE gw.kind = "razorpay" -> Razorpay_Name(gw)
      [] gw.kind = "paytm" -> Paytm_Name(gw)
      [] gw.kind = "razorpayx" -> RazorpayX_Name(gw)
      [] gw.kind = "paytm_payout" -> PaytmPayout_Name(gw)
      [] gw.kind = "manual" -> Manual_Name(gw)

Gateway_VerifyWebhookSignature(gw, payload, headers) ==
    CASE gw.kind = "razorpay" -> Razorpay_VerifyWebhookSignature(gw, payload, headers)
      [] gw.kind = "paytm" -> Paytm_VerifyWebhookSignature(gw, payload, headers)
      [] gw.kind = "razorpayx" -> RazorpayX_VerifyWebhookSignature(gw, payload, headers)
      [] gw.kind = "paytm_payout" -> PaytmPayout_VerifyWebhookSignature(gw, payload, headers)
      [] gw.kind = "manual" -> Manual_VerifyWebhookSignature(gw, payload, headers)

Gateway_ParseWebhookEvent(gw, payload) ==
    CASE gw.kind = "razorpay" -> Razorpay_ParseWebhookEvent(gw, payload)
      [] gw.kind = "paytm" -> Paytm_ParseWebhookEvent(gw, payload)
      [] gw.kind = "razorpayx" -> RazorpayX_ParseWebhookEvent(gw, payload)
      [] gw.kind = "paytm_payout" -> PaytmPayout_ParseWebhookEvent(gw, payload)
      [] gw.kind = "manual" -> Manual_ParseWebhookEvent(gw, payload)

PaymentGateway_ClientCredentials(gw) ==
    CASE gw.kind = "razorpay" -> Razorpay_ClientCredentials(gw)
      [] gw.kind = "paytm" -> Paytm_ClientCredentials(gw)

PayoutGateway_IsManual(gw) ==
    CASE gw.kind = "razorpayx" -> RazorpayX_IsManual(gw)
      [] gw.kind = "paytm_payout" -> PaytmPayout_IsManual(gw)
      [] gw.kind = "manual" -> Manual_IsManual(gw)

\* gw.<method>(ctx, args...) for the methods that take a context; rep is what
\* the provider answers if the adapter calls it
PaymentGateway_Call(gw, method, ctx, args, rep) ==
    CASE gw.kind = "razorpay" /\ method = "CreateOrder" ->
             Razorpay_CreateOrder(gw, ctx, args.req, rep)
      [] gw.kind = "razorpay" /\ method = "VerifyPayment" ->
             Razorpay_VerifyPayment(gw, ctx, args.req, rep)
      [] gw.kind = "razorpay" /\ method = "GetPaymentStatus" ->
             Razorpay_GetPaymentStatus(gw, ctx, args.id, rep)
      [] gw.kind = "razorpay" /\ method = "InitiateRefund" ->
             Razorpay_InitiateRefund(gw, ctx, args.req, rep)
      [] gw.kind = "paytm" /\ method = "CreateOrder" ->
             Paytm_CreateOrder(gw, ctx, args.req, rep)
      [] gw.kind = "paytm" /\ method = "VerifyPayment" ->
             Paytm_VerifyPayment(gw, ctx, args.req, rep)
      [] gw.kind = "paytm" /\ method = "GetPaymentStatus" ->
             Paytm_GetPaymentStatus(gw, ctx, args.id, rep)
      [] gw.kind = "paytm" /\ method = "InitiateRefund" ->
             Paytm_InitiateRefund(gw, ctx, args.req, rep)

PayoutGateway_Call(gw, method, ctx, args, rep) ==
    CASE gw.kind = "razorpayx" /\ method = "CreateContact" ->
             RazorpayX_CreateContact(gw, ctx, args.req, rep)
      [] gw.kind = "razorpayx" /\ method = "UpdateContact" ->
             RazorpayX_UpdateContact(gw, ctx, args.id, args.req, rep)
      [] gw.kind = "razorpayx" /\ method = "CreateFundAccount" ->
             RazorpayX_CreateFundAccount(gw, ctx, args.req, rep)
      [] gw.kind = "razorpayx" /\ method = "InitiatePayout" ->
             RazorpayX_InitiatePayout(gw, ctx, args.req, rep)
      [] gw.kind = "razorpayx" /\ method = "GetPayoutStatus" ->
             RazorpayX_GetPayoutStatus(gw, ctx, args.id, rep)
      [] gw.kind = "paytm_payout" /\ method = "CreateContact" ->
             PaytmPayout_CreateContact(gw, ctx, args.req, rep)
      [] gw.kind = "paytm_payout" /\ method = "UpdateContact" ->
             PaytmPayout_UpdateContact(gw, ctx, args.id, args.req, rep)
      [] gw.kind = "paytm_payout" /\ method = "CreateFundAccount" ->
             PaytmPayout_CreateFundAccount(gw, ctx, args.req, rep)
      [] gw.kind = "paytm_payout" /\ method = "InitiatePayout" ->
             PaytmPayout_InitiatePayout(gw, ctx, args.req, rep)
      [] gw.kind = "paytm_payout" /\ method = "GetPayoutStatus" ->
             PaytmPayout_GetPayoutStatus(gw, ctx, args.id, rep)
      [] gw.kind = "manual" /\ method = "CreateContact" ->
             Manual_CreateContact(gw, ctx, args.req, rep)
      [] gw.kind = "manual" /\ method = "UpdateContact" ->
             Manual_UpdateContact(gw, ctx, args.id, args.req, rep)
      [] gw.kind = "manual" /\ method = "CreateFundAccount" ->
             Manual_CreateFundAccount(gw, ctx, args.req, rep)
      [] gw.kind = "manual" /\ method = "InitiatePayout" ->
             Manual_InitiatePayout(gw, ctx, args.req, rep)
      [] gw.kind = "manual" /\ method = "GetPayoutStatus" ->
             Manual_GetPayoutStatus(gw, ctx, args.id, rep)

-----------------------------------------------------------------------------
(* Execution contexts, and what a call leaves behind *)

Callers == {"c1", "c2"}

\* the context.Context a caller passes in, context.Background(), and the
\* absence of a context parameter
CallerCtx(c) == [id |-> c]

Background == [id |-> "background"]

NoCtx == [id |-> "none"]

\* one step a call took: the resolver invoked, the registry looked up, or a
\* method of the adapter stored under key invoked; rep is what the resolver
\* (the provider behind the adapter) answered
Event(op, key, method, args, ctx, rep) ==
    [op |-> op, key |-> key, method |-> method, args |-> args, ctx |-> ctx,
     rep |-> rep]

NoRet == Ret(Nil, NoErr)

\* the number of resolved InitiatePayout calls followed in the payout history
MaxPayoutCalls == 3

\* the payout history when it is not kept, and at the start when it is
NoLedger == [on |-> FALSE, issued |-> <<>>, sent |-> <<>>]

NewLedger == [on |-> TRUE, issued |-> <<>>, sent |-> <<>>]

\* the payout history after the adapter held by call k has been invoked: an
\* InitiatePayout invocation is recorded with the request the adapter received
\* and, for the RazorpayX adapter, the request it puts on the wire
Received(k) ==
    IF payouts.on /\ k.method = "InitiatePayout"
    THEN [payouts EXCEPT !.sent = Append(@,
             [key  |-> k.key,
              req  |-> k.args.req,
              wire |-> IF k.gw.kind = "razorpayx"
                       THEN RazorpayX_PayoutRequest(k.gw, k.args.req)
                       ELSE [body |-> Nil, headers |-> Nil]])]
    ELSE payouts

IdleCall ==
    [pc |-> "idle", sw |-> "", method |-> "", args |-> Nil, ctx |-> NoCtx,
     key |-> "", gw |-> Nil, ret |-> NoRet, trace |-> <<>>]

\* the orders in which a range over a Go map may visit the keys in S
Orders(S) ==
    {o \in [1..Cardinality(S) -> S] : \A i, j \in DOMAIN o : o[i] = o[j] => i = j}

First(S) == CHOOSE i \in S : \A j \in S : i <= j

-----------------------------------------------------------------------------
(* package pg: GatewayResolver and the two dynamic switchers.  sw names    *)
(* the switcher: "payment" (DynamicPaymentSwitcher) or "payout"            *)
(* (DynamicPayoutSwitcher); the two are the same code over the two         *)
(* contracts.                                                              *)

Switchers == {"payment", "payout"}

\* s.gateways
Registry(sw) == IF sw = "payment" THEN gateways ELSE payoutGateways

\* s.resolver(ctx): the embedder's resolver answers from its configuration
GatewayResolver(sw, ctx) == store[sw]

NotRegistered(sw, name) ==
    Errorf(IF sw = "payment"
           THEN "pg-switcher: payment gateway %q not registered"
           ELSE "pg-switcher: payout gateway %q not registered", name, NoErr)

\* faulty variant of resolve: an unregistered name falls back to a registered
\* adapter instead of failing
resolve_Default(sw, ctx) ==
    LET r == GatewayResolver(sw, ctx)
        asked == <<Event("resolver", "", "", Nil, ctx, r)>>
        looked == Append(asked, Event("lookup", r.name, "", Nil, NoCtx, Nil))
        dflt == CHOOSE n \in DOMAIN Registry(sw) : TRUE
    IN  IF r.err # NoErr
        THEN [gw |-> Nil, key |-> "", trace |-> asked,
              err |-> Errorf("pg-switcher: resolver error", "", r.err)]
        ELSE IF r.name \notin DOMAIN Registry(sw) /\ DOMAIN Registry(sw) = {}
        THEN [gw |-> Nil, key |-> "", trace |-> looked,
              err |-> NotRegistered(sw, r.name)]
        ELSE IF r.name \notin DOMAIN Registry(sw)
        THEN [gw |-> Registry(sw)[dflt], key |-> dflt, trace |-> looked,
              err |-> NoErr]
        ELSE [gw |-> Registry(sw)[r.name], key |-> r.name, trace |-> looked,
              err |-> NoErr]

\* faulty variant of resolve: the resolver's failure is not checked before
\* the registry is consulted
resolve_IgnoresFailure(sw, ctx) ==
    LET r == GatewayResolver(sw, ctx)
        asked == <<Event("resolver", "", "", Nil, ctx, r)>>
        looked == Append(asked, Event("lookup", r.name, "", Nil, NoCtx, Nil))
    IN  IF r.name \notin DOMAIN Registry(sw)
        THEN [gw |-> Nil, key |-> "", trace |-> looked,
              err |-> NotRegistered(sw, r.name)]
        ELSE [gw |-> Registry(sw)[r.name], key |-> r.name, trace |-> looked,
              err |-> NoErr]

\* faulty variant of resolve: the gateway selected when the switcher was
\* constructed is kept, whatever the resolver answers now
resolve_Pinned(sw, ctx) ==
    LET r == GatewayResolver(sw, ctx)
        pinned == IF sw = "payment" THEN "razorpay" ELSE "razorpayx"
        asked == <<Event("resolver", "", "", Nil, ctx, r)>>
        looked == Append(asked, Event("lookup", pinned, "", Nil, NoCtx, Nil))
    IN  IF r.err # NoErr
        THEN [gw |-> Nil, key |-> "", trace |-> asked,
              err |-> Errorf("pg-switcher: resolver error", "", r.err)]
        ELSE IF pinned \notin DOMAIN Registry(sw)
        THEN [gw |-> Nil, key |-> "", trace |-> looked,
              err |-> NotRegistered(sw, pinned)]
        ELSE [gw |-> Registry(sw)[pinned], key |-> pinned, trace |-> looked,
              err |-> NoErr]

\* faulty variant of resolve: the adapter is found by the name it reports,
\* and by its registry key only when no adapter reports the resolved name
resolve_ByName(sw, ctx) ==
    LET r == GatewayResolver(sw, ctx)
        named == {n \in DOMAIN Registry(sw) :
                     Gateway_Name(Registry(sw)[n]) = r.name}
        key == IF named # {} THEN CHOOSE n \in named : TRUE ELSE r.name
        asked == <<Event("resolver", "", "", Nil, ctx, r)>>
        looked == Append(asked, Event("lookup", key, "", Nil, NoCtx, Nil))
    IN  IF r.err # NoErr
        THEN [gw |-> Nil, key |-> "", trace |-> asked,
              err |-> Errorf("pg-switcher: resolver error", "", r.err)]
        ELSE IF key \notin DOMAIN Registry(sw)
        THEN [gw |-> Nil, key |-> "", trace |-> looked,
              err |-> NotRegistered(sw, r.name)]
        ELSE [gw |-> Registry(sw)[key], key |-> key, trace |-> looked,
              err |-> NoErr]

resolve(sw, ctx) ==
    LET r == GatewayResolver(sw, ctx)
        asked == <<Event("resolver", "", "", Nil, ctx, r)>>
        looked == Append(asked, Event("lookup", r.name, "", Nil, NoCtx, Nil))
    IN  IF r.err # NoErr
        THEN [gw |-> Nil, key |-> "", trace |-> asked,
              err |-> Errorf("pg-switcher: resolver error", "", r.err)]
        ELSE IF r.name \notin DOMAIN Registry(sw)
        THEN [gw |-> Nil, key |-> "", trace |-> looked,
              err |-> NotRegistered(sw, r.name)]
        ELSE [gw |-> Registry(sw)[r.name], key |-> r.name, trace |-> looked,
              err |-> NoErr]

\* faulty variant of ResolveThen: a failed resolution is not reported; the
\* method returns its zero value alone
ResolveThen_SwallowsFailure(sw, method, args, ctx, zero, report) ==
    LET r == resolve(sw, ctx)
    IN  [pc |-> IF r.err # NoErr THEN "done" ELSE "resolved",
         sw |-> sw, method |-> method, args |-> args, ctx |-> ctx,
         key |-> r.key, gw |-> r.gw,
         ret |-> IF r.err = NoErr THEN NoRet ELSE Ret(zero, NoErr),
         trace |-> r.trace]

\* gw, err := s.resolve(ctx); if err != nil { return zero, err }: the call
\* either has returned the failure or holds gw, about to delegate.  A
\* method without an error result (report = FALSE) returns zero alone.
ResolveThen(sw, method, args, ctx, zero, report) ==
    LET r == resolve(sw, ctx)
    IN  [pc |-> IF r.err # NoErr THEN "done" ELSE "resolved",
         sw |-> sw, method |-> method, args |-> args, ctx |-> ctx,
         key |-> r.key, gw |-> r.gw,
         ret |-> IF r.err = NoErr THEN NoRet
                 ELSE Ret(zero, IF report THEN r.err ELSE NoErr),
         trace |-> r.trace]

CreateOrder(c, req) ==
    /\ calls[c].pc = "idle"
    /\ calls' = [calls EXCEPT ![c] =
           ResolveThen("payment", "CreateOrder", [req |-> req], CallerCtx(c),
                       Nil, TRUE)]
    /\ UNCHANGED <<gateways, payoutGateways, store, cancelled, payouts>>

VerifyPayment(c, req) ==
    /\ calls[c].pc = "idle"
    /\ calls' = [calls EXCEPT ![c] =
           ResolveThen("payment", "VerifyPayment", [req |-> req], CallerCtx(c),
                       BoolVal(FALSE), TRUE)]
    /\ UNCHANGED <<gateways, payoutGateways, store, cancelled, payouts>>

GetPaymentStatus(c, gatewayOrderID) ==
    /\ calls[c].pc = "idle"
    /\ calls' = [calls EXCEPT ![c] =
           ResolveThen("payment", "GetPaymentStatus", [id |-> gatewayOrderID],
                       CallerCtx(c), Nil, TRUE)]
    /\ UNCHANGED <<gateways, payoutGateways, store, cancelled, payouts>>

InitiateRefund(c, req) ==
    /\ calls[c].pc = "idle"
    /\ calls' = [calls EXCEPT ![c] =
           ResolveThen("payment", "InitiateRefund", [req |-> req], CallerCtx(c),
                       Nil, TRUE)]
    /\ UNCHANGED <<gateways, payoutGateways, store, cancelled, payouts>>

CreateContact(c, req) ==
    /\ calls[c].pc = "idle"
    /\ calls' = [calls EXCEPT ![c] =
           ResolveThen("payout", "CreateContact", [req |-> req], CallerCtx(c),
                       Nil, TRUE)]
    /\ UNCHANGED <<gateways, payoutGateways, store, cancelled, payouts>>

UpdateContact(c, contactID, req) ==
    /\ calls[c].pc = "idle"
    /\ calls' = [calls EXCEPT ![c] =
           ResolveThen("payout", "UpdateContact",
                       [id |-> contactID, req |-> req], CallerCtx(c), Nil, TRUE)]
    /\ UNCHANGED <<gateways, payoutGateways, store, cancelled, payouts>>

CreateFundAccount(c, req) ==
    /\ calls[c].pc = "idle"
    /\ calls' = [calls EXCEPT ![c] =
           ResolveThen("payout", "CreateFundAccount", [req |-> req],
                       CallerCtx(c), Nil, TRUE)]
    /\ UNCHANGED <<gateways, payoutGateways, store, cancelled, payouts>>

InitiatePayout(c, req) ==
    /\ calls[c].pc = "idle"
    /\ payouts.on => Len(payouts.issued) < MaxPayoutCalls
    /\ LET k == ResolveThen("payout", "InitiatePayout", [req |-> req],
                            CallerCtx(c), Nil, TRUE)
       IN  /\ calls' = [calls EXCEPT ![c] = k]
           /\ payouts' = IF payouts.on /\ k.pc = "resolved"
                         THEN [payouts EXCEPT !.issued = Append(@, req)]
                         ELSE payouts
    /\ UNCHANGED <<gateways, payoutGateways, store, cancelled>>

GetPayoutStatus(c, gatewayPayoutID) ==
    /\ calls[c].pc = "idle"
    /\ calls' = [calls EXCEPT ![c] =
           ResolveThen("payout", "GetPayoutStatus", [id |-> gatewayPayoutID],
                       CallerCtx(c), Nil, TRUE)]
    /\ UNCHANGED <<gateways, payoutGateways, store, cancelled, payouts>>

ActiveGatewayName(c, sw) ==
    /\ calls[c].pc = "idle"
    /\ calls' = [calls EXCEPT ![c] =
           ResolveThen(sw, "ActiveGatewayName", Nil, CallerCtx(c), Str(""), TRUE)]
    /\ UNCHANGED <<gateways, payoutGateways, store, cancelled, payouts>>

\* faulty variant of ClientCredentials: a failed resolution yields the nil map
ClientCredentials_NilOnFailure(c) ==
    /\ calls[c].pc = "idle"
    /\ calls' = [calls EXCEPT ![c] =
           ResolveThen("payment", "ClientCredentials", Nil, Background, Nil,
                       FALSE)]
    /\ UNCHANGED <<gateways, payoutGateways, store, cancelled, payouts>>

ClientCredentials(c) ==
    /\ calls[c].pc = "idle"
    /\ calls' = [calls EXCEPT ![c] =
           ResolveThen("payment", "ClientCredentials", Nil, Background,
                       MapVal({}), FALSE)]
    /\ UNCHANGED <<gateways, payoutGateways, store, cancelled, payouts>>

IsManual(c) ==
    /\ calls[c].pc = "idle"
    /\ calls' = [calls EXCEPT ![c] =
           ResolveThen("payout", "IsManual", Nil, Background, BoolVal(FALSE),
                       FALSE)]
    /\ UNCHANGED <<gateways, payoutGateways, store, cancelled, payouts>>

\* faulty variant of VerifyLoop: only the first adapter visited is asked
VerifyLoop_FirstOnly(reg, order, payload, headers) ==
    IF Len(order) = 0 THEN [ok |-> FALSE, probed |-> order]
    ELSE [ok |-> Gateway_VerifyWebhookSignature(reg[order[1]], payload, headers),
          probed |-> SubSeq(order, 1, 1)]

\* for _, gw := range s.gateways { if gw.VerifyWebhookSignature(..) { return true } }
\* visiting the keys in the given order: the result and the keys visited
VerifyLoop(reg, order, payload, headers) ==
    LET hits == {i \in DOMAIN order :
                    Gateway_VerifyWebhookSignature(reg[order[i]], payload, headers)}
    IN  [ok |-> hits # {},
         probed |-> IF hits = {} THEN order ELSE SubSeq(order, 1, First(hits))]

VerifyWebhookSignature(c, sw, payload, headers, order) ==
    /\ calls[c].pc = "idle"
    /\ order \in Orders(DOMAIN Registry(sw))
    /\ LET args == [payload |-> payload, headers |-> headers]
           r == VerifyLoop(Registry(sw), order, payload, headers)
       IN  calls' = [calls EXCEPT ![c] =
               [IdleCall EXCEPT
                    !.pc = "done", !.sw = sw,
                    !.method = "VerifyWebhookSignature", !.args = args,
                    !.ret = Ret(BoolVal(r.ok), NoErr),
                    !.trace = [i \in DOMAIN r.probed |->
                                  Event("adapter", r.probed[i],
                                        "VerifyWebhookSignature", args, NoCtx,
                                        Nil)]]]
    /\ UNCHANGED <<gateways, payoutGateways, store, cancelled, payouts>>

ParseExhausted(sw, err) ==
    Errorf(IF sw = "payment"
           THEN "pg-switcher: unable to parse webhook event"
           ELSE "pg-switcher: unable to parse payout webhook event", "", err)

\* faulty variant of ParseFallback: the loop gives up at the first adapter
\* that fails to parse
ParseFallback_StopsAtFailure(sw, reg, order, payload, err) ==
    IF Len(order) > 0
       /\ Gateway_ParseWebhookEvent(reg[order[1]], payload).err = NoErr
    THEN [ret |-> Ret(Gateway_ParseWebhookEvent(reg[order[1]], payload).val,
                      NoErr),
          probed |-> SubSeq(order, 1, 1)]
    ELSE [ret |-> Ret(Nil, ParseExhausted(sw, err)),
          probed |-> SubSeq(order, 1, IF Len(order) > 0 THEN 1 ELSE 0)]

\* faulty variant of ParseFallback: the loop's err is not shadowed, so the
\* failure wraps the parse error of the last adapter tried
ParseFallback_LoopErr(sw, reg, order, payload, err) ==
    LET hits == {i \in DOMAIN order :
                    Gateway_ParseWebhookEvent(reg[order[i]], payload).err = NoErr}
        last == IF Len(order) = 0 THEN err
                ELSE Gateway_ParseWebhookEvent(reg[order[Len(order)]],
                                               payload).err
    IN  IF hits = {}
        THEN [ret |-> Ret(Nil, ParseExhausted(sw, last)), probed |-> order]
        ELSE [ret |-> Ret(Gateway_ParseWebhookEvent(
                              reg[order[First(hits)]], payload).val, NoErr),
              probed |-> SubSeq(order, 1, First(hits))]

\* faulty variant of ParseFallback: with nothing to probe, no event and no
\* failure
ParseFallback_NilOnEmpty(sw, reg, order, payload, err) ==
    LET hits == {i \in DOMAIN order :
                    Gateway_ParseWebhookEvent(reg[order[i]], payload).err = NoErr}
    IN  IF Len(order) = 0
        THEN [ret |-> Ret(Nil, NoErr), probed |-> order]
        ELSE IF hits = {}
        THEN [ret |-> Ret(Nil, ParseExhausted(sw, err)), probed |-> order]
        ELSE [ret |-> Ret(Gateway_ParseWebhookEvent(
                              reg[order[First(hits)]], payload).val, NoErr),
              probed |-> SubSeq(order, 1, First(hits))]

\* the fallback loop of ParseWebhookEvent, visiting the keys in the given
\* order; err is the failure of resolve (the loop's own err shadows it)
ParseFallback(sw, reg, order, payload, err) ==
    LET hits == {i \in DOMAIN order :
                    Gateway_ParseWebhookEvent(reg[order[i]], payload).err = NoErr}
    IN  IF hits = {}
        THEN [ret |-> Ret(Nil, ParseExhausted(sw, err)), probed |-> order]
        ELSE [ret |-> Ret(Gateway_ParseWebhookEvent(
                              reg[order[First(hits)]], payload).val, NoErr),
              probed |-> SubSeq(order, 1, First(hits))]

ParseWebhookEvent(c, sw, payload, order) ==
    /\ calls[c].pc = "idle"
    /\ order \in Orders(DOMAIN Registry(sw))
    /\ LET args == [payload |-> payload]
           r == resolve(sw, Background)
           f == ParseFallback(sw, Registry(sw), order, payload, r.err)
       IN  calls' = [calls EXCEPT ![c] =
               IF r.err # NoErr
               THEN [IdleCall EXCEPT
                        !.pc = "done", !.sw = sw, !.method = "ParseWebhookEvent",
                        !.args = args, !.ctx = Background, !.ret = f.ret,
                        !.trace = r.trace \o
                                  [i \in DOMAIN f.probed |->
                                      Event("adapter", f.probed[i],
                                            "ParseWebhookEvent", args, NoCtx,
                                            Nil)]]
               ELSE [IdleCall EXCEPT
                        !.pc = "resolved", !.sw = sw,
                        !.method = "ParseWebhookEvent", !.args = args,
                        !.ctx = Background, !.key = r.key, !.gw = r.gw,
                        !.trace = r.trace]]
    /\ UNCHANGED <<gateways, payoutGateways, store, cancelled, payouts>>

\* the methods whose adapter counterpart takes the caller's context
ForwardingMethods ==
    {"CreateOrder", "VerifyPayment", "GetPaymentStatus", "InitiateRefund",
     "CreateContact", "UpdateContact", "CreateFundAccount", "InitiatePayout",
     "GetPayoutStatus"}

\* the adapter method a switcher method ends in, and its result
AdapterMethod(method) ==
    IF method = "ActiveGatewayName" THEN "Name" ELSE method

AdapterCall(sw, gw, method, ctx, args, rep) ==
    CASE method = "ActiveGatewayName" -> Ret(Str(Gateway_Name(gw)), NoErr)
      [] method = "ClientCredentials" ->
             Ret(PaymentGateway_ClientCredentials(gw), NoErr)
      [] method = "IsManual" -> Ret(BoolVal(PayoutGateway_IsManual(gw)), NoErr)
      [] method = "ParseWebhookEvent" ->
             Gateway_ParseWebhookEvent(gw, args.payload)
      [] method \in ForwardingMethods /\ sw = "payment" ->
             PaymentGateway_Call(gw, method, ctx, args, rep)
      [] method \in ForwardingMethods /\ sw = "payout" ->
             PayoutGateway_Call(gw, method, ctx, args, rep)

\* faulty variant of Delegate: the adapter's failure is wrapped before it is
\* returned
Delegate_WrapsFailure(c, rep) ==
    /\ calls[c].pc = "resolved"
    /\ LET k == calls[c]
           ctx == IF k.method \in ForwardingMethods THEN k.ctx ELSE NoCtx
           r == AdapterCall(k.sw, k.gw, k.method, ctx, k.args, rep)
       IN  calls' = [calls EXCEPT
               ![c].pc = "done",
               ![c].ret = IF r.err = NoErr THEN r
                          ELSE Ret(r.val, Errorf("pg-switcher: gateway error",
                                                 "", r.err)),
               ![c].trace = Append(@, Event("adapter", k.key,
                                            AdapterMethod(k.method), k.args, ctx,
                                            rep))]
    /\ UNCHANGED <<gateways, payoutGateways, store, cancelled, payouts>>

\* faulty variant of Delegate: when the resolved adapter cannot parse a
\* webhook, the other registered adapters are tried
Delegate_ParseFallsBack(c, rep) ==
    /\ calls[c].pc = "resolved"
    /\ LET k == calls[c]
           ctx == IF k.method \in ForwardingMethods THEN k.ctx ELSE NoCtx
           r == AdapterCall(k.sw, k.gw, k.method, ctx, k.args, rep)
           others == {n \in DOMAIN Registry(k.sw) :
                         Gateway_ParseWebhookEvent(Registry(k.sw)[n],
                                                   k.args.payload).err = NoErr}
       IN  calls' = [calls EXCEPT
               ![c].pc = "done",
               ![c].ret = IF k.method = "ParseWebhookEvent" /\ r.err # NoErr
                             /\ others # {}
                          THEN Gateway_ParseWebhookEvent(
                                   Registry(k.sw)[CHOOSE n \in others : TRUE],
                                   k.args.payload)
                          ELSE r,
               ![c].trace = Append(@, Event("adapter", k.key,
                                            AdapterMethod(k.method), k.args, ctx,
                                            rep))]
    /\ UNCHANGED <<gateways, payoutGateways, store, cancelled, payouts>>

\* faulty variant of Delegate: the adapter is taken from a gateway shared by
\* all calls, the one the resolver names at the time of delegation
Delegate_SharedGateway(c, rep) ==
    /\ calls[c].pc = "resolved"
    /\ LET k == calls[c]
           ctx == IF k.method \in ForwardingMethods THEN k.ctx ELSE NoCtx
           now == store[k.sw].name
           key == IF now \in DOMAIN Registry(k.sw) THEN now ELSE k.key
       IN  calls' = [calls EXCEPT
               ![c].pc = "done",
               ![c].ret = AdapterCall(k.sw, Registry(k.sw)[key], k.method, ctx,
                                      k.args, rep),
               ![c].trace = Append(@, Event("adapter", key,
                                            AdapterMethod(k.method), k.args, ctx,
                                            rep))]
    /\ UNCHANGED <<gateways, payoutGateways, store, cancelled, payouts>>

\* faulty variant of Delegate: an adapter whose call failed is dropped from
\* the registry
Delegate_Unregisters(c, rep) ==
    /\ calls[c].pc = "resolved"
    /\ LET k == calls[c]
           ctx == IF k.method \in ForwardingMethods THEN k.ctx ELSE NoCtx
           r == AdapterCall(k.sw, k.gw, k.method, ctx, k.args, rep)
           kept == [n \in DOMAIN Registry(k.sw) \ {k.key} |-> Registry(k.sw)[n]]
       IN  /\ calls' = [calls EXCEPT
                  ![c].pc = "done",
                  ![c].ret = r,
                  ![c].trace = Append(@, Event("adapter", k.key,
                                               AdapterMethod(k.method), k.args,
                                               ctx, rep))]
           /\ gateways' = IF r.err # NoErr /\ k.sw = "payment"
                          THEN kept ELSE gateways
           /\ payoutGateways' = IF r.err # NoErr /\ k.sw = "payout"
                                THEN kept ELSE payoutGateways
    /\ UNCHANGED <<store, cancelled, payouts>>

\* faulty variant of Delegate: a payout whose ReferenceID an adapter has
\* already received is answered without invoking the adapter again
Delegate_Dedups(c, rep) ==
    /\ calls[c].pc = "resolved"
    /\ LET k == calls[c]
           ctx == IF k.method \in ForwardingMethods THEN k.ctx ELSE NoCtx
           seen == k.method = "InitiatePayout"
                   /\ \E i \in DOMAIN payouts.sent :
                          payouts.sent[i].req.ReferenceID = k.args.req.ReferenceID
       IN  /\ calls' = [calls EXCEPT
                  ![c].pc = "done",
                  ![c].ret = AdapterCall(k.sw, k.gw, k.method, ctx, k.args, rep),
                  ![c].trace = IF seen THEN @
                               ELSE Append(@, Event("adapter", k.key,
                                                    AdapterMethod(k.method),
                                                    k.args, ctx, rep))]
           /\ payouts' = IF seen THEN payouts ELSE Received(k)
    /\ UNCHANGED <<gateways, payoutGateways, store, cancelled>>

\* faulty variant of Delegate: a forwarding call whose adapter fails is
\* attempted a second time on the same adapter
Delegate_Retries(c, rep) ==
    /\ calls[c].pc = "resolved"
    /\ LET k == calls[c]
           ctx == IF k.method \in ForwardingMethods THEN k.ctx ELSE NoCtx
           r == AdapterCall(k.sw, k.gw, k.method, ctx, k.args, rep)
           ev == Event("adapter", k.key, AdapterMethod(k.method), k.args, ctx,
                       rep)
           again == k.method \in ForwardingMethods /\ r.err # NoErr
       IN  calls' = [calls EXCEPT
               ![c].pc = "done",
               ![c].ret = r,
               ![c].trace = IF again THEN Append(Append(@, ev), ev)
                            ELSE Append(@, ev)]
    /\ payouts' = Received(calls[c])
    /\ UNCHANGED <<gateways, payoutGateways, store, cancelled>>

\* return gw.<method>(ctx, args...): the resolved adapter is invoked and its
\* result and failure are the switcher's
Delegate(c, rep) ==
    /\ calls[c].pc = "resolved"
    /\ LET k == calls[c]
           ctx == IF k.method \in ForwardingMethods THEN k.ctx ELSE NoCtx
       IN  calls' = [calls EXCEPT
               ![c].pc = "done",
               ![c].ret = AdapterCall(k.sw, k.gw, k.method, ctx, k.args, rep),
               ![c].trace = Append(@, Event("adapter", k.key,
                                            AdapterMethod(k.method), k.args, ctx,
                                            rep))]
    /\ payouts' = Received(calls[c])
    /\ UNCHANGED <<gateways, payoutGateways, store, cancelled>>

\* the caller has the result; its execution context is free for the next
\* call, which comes with a context of its own
Return(c) ==
    /\ calls[c].pc = "done"
    /\ calls' = [calls EXCEPT ![c] = IdleCall]
    /\ cancelled' = cancelled \ {c}
    /\ UNCHANGED <<gateways, payoutGateways, store, payouts>>

\* the caller cancels the context it passes to its call, before the call or
\* while the call is between resolution and delegation
Cancel(c) ==
    /\ calls[c].pc \in {"idle", "resolved"}
    /\ c \notin cancelled
    /\ cancelled' = cancelled \cup {c}
    /\ UNCHANGED <<gateways, payoutGateways, store, calls, payouts>>

\* the administrator changes what the resolver of one switcher answers
AdminSet(sw, outcome) ==
    /\ store[sw] # outcome
    /\ store' = [store EXCEPT ![sw] = outcome]
    /\ UNCHANGED <<gateways, payoutGateways, calls, cancelled, payouts>>

-----------------------------------------------------------------------------
(* The adapters and registries an embedder constructs *)

RazorpayAdapter ==
    Razorpay_New([KeyID |-> "rzp_key", KeySecret |-> "rzp_secret",
                  WebhookSecret |-> "whsec_rzp"])

PaytmAdapter ==
    Paytm_New([MID |-> "mid_1", MerchantKey |-> "mkey", Website |-> "",
               CallbackURL |-> "", WebhookSecret |-> "whsec_paytm",
               Production |-> FALSE])

RazorpayXAdapter ==
    RazorpayX_New([KeyID |-> "rzx_key", KeySecret |-> "rzx_secret",
                   AccountNumber |-> "acc_1", WebhookSecret |-> "whsec_rzx"])

PaytmPayoutAdapter ==
    PaytmPayout_New([MID |-> "mid_1", MerchantKey |-> "mkey",
                     Production |-> FALSE])

ManualAdapter == Manual_New

EmptyRegistry == [k \in {} |-> Nil]

\* NewDynamicPaymentSwitcher / NewDynamicPayoutSwitcher are given one of
\* these pairs of registries: none registered, the README's registries,
\* registries whose keys are not the adapters' own names, and registries of
\* adapters constructed from a Config whose secrets are left empty
Deployments ==
    {[payment |-> EmptyRegistry, payout |-> EmptyRegistry],
     [payment |-> [razorpay |-> RazorpayAdapter, paytm |-> PaytmAdapter],
      payout |-> [razorpayx |-> RazorpayXAdapter, paytm |-> PaytmPayoutAdapter,
                  manual |-> ManualAdapter]],
     [payment |-> [paytm |-> RazorpayAdapter],
      payout |-> [manual |-> PaytmPayoutAdapter, razorpayx |-> RazorpayXAdapter]],
     [payment |-> [razorpay |-> Razorpay_New([RazorpayAdapter.cfg EXCEPT
                                                  !.WebhookSecret = ""]),
                   paytm |-> Paytm_New([PaytmAdapter.cfg EXCEPT
                                            !.WebhookSecret = ""])],
      payout |-> [razorpayx |-> RazorpayX_New([RazorpayXAdapter.cfg EXCEPT
                                                   !.WebhookSecret = ""]),
                  paytm |-> PaytmPayout_New([PaytmPayoutAdapter.cfg EXCEPT
                                                 !.MerchantKey = ""])]]}

Readme ==
    CHOOSE d \in Deployments :
        /\ DOMAIN d.payment = {"razorpay", "paytm"}
        /\ d.payment["razorpay"] = RazorpayAdapter

NewDynamicPaymentSwitcher(reg) == gateways = reg

NewDynamicPayoutSwitcher(reg) == payoutGateways = reg

\* what a resolver can answer: a name (registered or not), or a failure
GatewayNames(sw) ==
    IF sw = "payment" THEN {"razorpay", "paytm", "stripe"}
    ELSE {"razorpayx", "manual", "stripe"}

Active(name) == [name |-> name, err |-> NoErr]

ResolverDown ==
    [name |-> "", err |-> Errorf("config store unreachable", "", NoErr)]

ResolverOutcomes(sw) == {Active(n) : n \in GatewayNames(sw)} \cup {ResolverDown}

-----------------------------------------------------------------------------
(* The requests callers make: each list holds the request of caller c1 and *)
(* that of caller c2; a caller alone makes either.                         *)

Range(q) == {q[i] : i \in DOMAIN q}

\* the request of list q that is caller c's own
Own(c, q) == q[IF c = "c1" THEN 1 ELSE 2]

OrderReqList ==
    <<[Amount |-> 10000, Currency |-> "INR", Receipt |-> "booking_ref_123",
      Notes |-> {}],
     [Amount |-> 4999, Currency |-> "USD", Receipt |-> "r_2",
      Notes |-> {<<"k", "v">>}]>>

VerifyReqList ==
    <<[GatewayOrderID |-> "order_1", GatewayPaymentID |-> "pay_1",
      Signature |-> Hmac("hex", "rzp_secret", Str("order_1|pay_1"))],
     [GatewayOrderID |-> "order_1", GatewayPaymentID |-> "pay_1",
      Signature |-> Str("bad")]>>

OrderIDList == <<"order_1", "order_2">>

RefundReqList ==
    <<[GatewayPaymentID |-> "pay_1", Amount |-> 10000, Notes |-> {}],
     [GatewayPaymentID |-> "pay_2", Amount |-> 1, Notes |-> {}]>>

ContactReqList ==
    <<[Name |-> "Asha", Email |-> "a@x.in", Phone |-> "", ReferenceID |-> "u_1"],
     [Name |-> "Ravi", Email |-> "", Phone |-> "99", ReferenceID |-> "u_2"]>>

ContactIDList == <<"cont_1", "cont_2">>

FundAccountReqList ==
    <<[ContactID |-> "cont_1", AccountType |-> "vpa", VPA |-> "a@upi",
      AccountName |-> "", AccountNumber |-> "", IFSC |-> ""],
     [ContactID |-> "cont_2", AccountType |-> "card", VPA |-> "",
      AccountName |-> "Ravi", AccountNumber |-> "1234", IFSC |-> "HDFC0"]>>

PayoutReqList ==
    <<[FundAccountID |-> "fa_1", Amount |-> 50000, Currency |-> "INR",
      Mode |-> "UPI", ReferenceID |-> "payout_uuid_1", Narration |-> "Event payout"],
     [FundAccountID |-> "fa_2", Amount |-> 700, Currency |-> "INR",
      Mode |-> "IMPS", ReferenceID |-> "payout_uuid_2", Narration |-> ""]>>

PayoutIDList == <<"pout_1", "pout_2">>

\* webhook bodies: not JSON, a JSON array, a Razorpay payment event, a Paytm
\* transaction callback, an object whose "event" is a number, and a
\* RazorpayX payout event
PInvalid == JInvalid

PArray == JArr

PRazorpayCaptured ==
    JObj([event |-> JStr("payment.captured"),
          payload |-> JObj([payment |-> JObj([entity |->
              JObj([id |-> JStr("pay_1"), order_id |-> JStr("order_1")])])])])

PPaytmSuccess ==
    JObj([body |-> JObj([txnStatus |-> JStr("TXN_SUCCESS"),
                         orderId |-> JStr("order_1"), txnId |-> JStr("txn_1")])])

PEventNumber == JObj([event |-> JNum(7)])

PPayoutProcessed ==
    JObj([event |-> JStr("payout.processed"),
          payload |-> JObj([payout |-> JObj([entity |->
              JObj([id |-> JStr("pout_1"), failure_reason |-> JNull])])])])

Payloads ==
    {PInvalid, PArray, PRazorpayCaptured, PPaytmSuccess, PEventNumber,
     PPayoutProcessed}

\* the header mappings a delivery of payload p may carry
HeadersFor(p) ==
    {[k \in {} |-> Str("")],
     "x-razorpay-signature" :> Hmac("hex", "whsec_rzp", p),
     "X-Razorpay-Signature" :> Hmac("hex", "whsec_rzp", p),
     "x-razorpay-signature" :> Str("deadbeef"),
     "x-paytm-signature" :> Hmac("b64", "whsec_paytm", p),
     "x-paytm-signature" :> Str("forged"),
     "x-razorpayx-signature" :> Hmac("hex", "whsec_rzx", p),
     "x-razorpay-signature" :> Hmac("hex", "whsec_rzx", p),
     "x-razorpay-signature" :> Hmac("hex", "", p),
     "x-paytm-signature" :> Hmac("b64", "", p)}

-----------------------------------------------------------------------------
(* The state machine *)

Init ==
    /\ \E d \in Deployments :
           /\ NewDynamicPaymentSwitcher(d.payment)
           /\ NewDynamicPayoutSwitcher(d.payout)
    /\ store = [payment |-> Active("razorpay"), payout |-> Active("razorpayx")]
    /\ calls = [c \in Callers |-> IdleCall]
    /\ cancelled = {}
    /\ payouts = NoLedger

\* one execution context issuing calls one after another
Next ==
    \/ \E req \in Range(OrderReqList) : CreateOrder("c1", req)
    \/ \E req \in Range(VerifyReqList) : VerifyPayment("c1", req)
    \/ \E id \in Range(OrderIDList) : GetPaymentStatus("c1", id)
    \/ \E req \in Range(RefundReqList) : InitiateRefund("c1", req)
    \/ \E req \in Range(ContactReqList) : CreateContact("c1", req)
    \/ \E id \in Range(ContactIDList), req \in Range(ContactReqList) :
           UpdateContact("c1", id, req)
    \/ \E req \in Range(FundAccountReqList) : CreateFundAccount("c1", req)
    \/ \E req \in Range(PayoutReqList) : InitiatePayout("c1", req)
    \/ \E id \in Range(PayoutIDList) : GetPayoutStatus("c1", id)
    \/ \E sw \in Switchers : ActiveGatewayName("c1", sw)
    \/ ClientCredentials("c1")
    \/ IsManual("c1")
    \/ \E sw \in Switchers, p \in Payloads :
           \E h \in HeadersFor(p), o \in Orders(DOMAIN Registry(sw)) :
               VerifyWebhookSignature("c1", sw, p, h, o)
    \/ \E sw \in Switchers, p \in Payloads :
           \E o \in Orders(DOMAIN Registry(sw)) : ParseWebhookEvent("c1", sw, p, o)
    \/ \E rep \in ProviderReplies : Delegate("c1", rep)
    \/ Return("c1")
    \/ \E sw \in Switchers : \E out \in ResolverOutcomes(sw) : AdminSet(sw, out)

Spec == Init /\ [][Next]_vars

\* two execution contexts calling the forwarding methods of the README's
\* switchers concurrently, each with its own requests, while the
\* administrator changes the active gateways
InitConc ==
    /\ NewDynamicPaymentSwitcher(Readme.payment)
    /\ NewDynamicPayoutSwitcher(Readme.payout)
    /\ store = [payment |-> Active("razorpay"), payout |-> Active("razorpayx")]
    /\ calls = [c \in Callers |-> IdleCall]
    /\ cancelled = {}
    /\ payouts = NoLedger

NextConc ==
    \/ \E c \in Callers : CreateOrder(c, Own(c, OrderReqList))
    \/ \E c \in Callers : VerifyPayment(c, Own(c, VerifyReqList))
    \/ \E c \in Callers : GetPaymentStatus(c, Own(c, OrderIDList))
    \/ \E c \in Callers : InitiateRefund(c, Own(c, RefundReqList))
    \/ \E c \in Callers : CreateContact(c, Own(c, ContactReqList))
    \/ \E c \in Callers :
           UpdateContact(c, Own(c, ContactIDList), Own(c, ContactReqList))
    \/ \E c \in Callers : CreateFundAccount(c, Own(c, FundAccountReqList))
    \/ \E c \in Callers : InitiatePayout(c, Own(c, PayoutReqList))
    \/ \E c \in Callers : GetPayoutStatus(c, Own(c, PayoutIDList))
    \/ \E c \in Callers : \E rep \in {ProviderOK, ProviderDown} : Delegate(c, rep)
    \/ \E c \in Callers : Return(c)
    \/ \E sw \in Switchers : \E out \in ResolverOutcomes(sw) : AdminSet(sw, out)

SpecConc == InitConc /\ [][NextConc]_vars

\* one execution context calling the resolve-and-delegate methods of the
\* README's switchers with a context it may cancel
NextCancel ==
    \/ CreateOrder("c1", Own("c1", OrderReqList))
    \/ VerifyPayment("c1", Own("c1", VerifyReqList))
    \/ GetPaymentStatus("c1", Own("c1", OrderIDList))
    \/ InitiateRefund("c1", Own("c1", RefundReqList))
    \/ CreateContact("c1", Own("c1", ContactReqList))
    \/ UpdateContact("c1", Own("c1", ContactIDList), Own("c1", ContactReqList))
    \/ CreateFundAccount("c1", Own("c1", FundAccountReqList))
    \/ InitiatePayout("c1", Own("c1", PayoutReqList))
    \/ GetPayoutStatus("c1", Own("c1", PayoutIDList))
    \/ \E sw \in Switchers : ActiveGatewayName("c1", sw)
    \/ \E rep \in ProviderReplies : Delegate("c1", rep)
    \/ Return("c1")
    \/ Cancel("c1")
    \/ \E sw \in Switchers : \E out \in ResolverOutcomes(sw) : AdminSet(sw, out)

SpecCancel == InitConc /\ [][NextCancel]_vars

\* The payout switcher under repeated InitiatePayout calls: the two execution
\* contexts issue payout requests, the same request any number of times up to
\* MaxPayoutCalls, while the stored payout gateway name changes; the history
\* of issued calls and of the requests received by the adapters is kept.
InitPayout ==
    /\ NewDynamicPaymentSwitcher(Readme.payment)
    /\ NewDynamicPayoutSwitcher(Readme.payout)
    /\ store = [payment |-> Active("razorpay"), payout |-> Active("razorpayx")]
    /\ calls = [c \in Callers |-> IdleCall]
    /\ cancelled = {}
    /\ payouts = NewLedger

NextPayout ==
    \/ \E c \in Callers : \E i \in DOMAIN PayoutReqList :
           InitiatePayout(c, PayoutReqList[i])
    \/ \E c \in Callers : \E rep \in ProviderReplies : Delegate(c, rep)
    \/ \E c \in Callers : Return(c)
    \/ \E out \in ResolverOutcomes("payout") : AdminSet("payout", out)

SpecPayout == InitPayout /\ [][NextPayout]_vars

\* The README's webhook handler, one delivery at a time: valid :=
\* switcher.VerifyWebhookSignature(payload, headers) in context c1, then, for
\* a delivery found valid, switcher.ParseWebhookEvent(payload) in context c2
\* with the same payload, while the administrator changes the active
\* gateways; the handler is done with a delivery when both have returned.
NextWebhook ==
    \/ /\ calls["c2"].pc = "idle"
       /\ \E sw \in Switchers, p \in Payloads :
              \E h \in HeadersFor(p), o \in Orders(DOMAIN Registry(sw)) :
                  VerifyWebhookSignature("c1", sw, p, h, o)
    \/ /\ calls["c1"].pc = "done"
       /\ calls["c1"].ret.val.b
       /\ \E o \in Orders(DOMAIN Registry(calls["c1"].sw)) :
              ParseWebhookEvent("c2", calls["c1"].sw, calls["c1"].args.payload, o)
    \/ \E rep \in ProviderReplies : Delegate("c2", rep)
    \/ Return("c2")
    \/ calls["c2"].pc = "idle" /\ Return("c1")
    \/ \E sw \in Switchers : \E out \in ResolverOutcomes(sw) : AdminSet(sw, out)

SpecWebhook == Init /\ [][NextWebhook]_vars

\* Two runs of ParseWebhookEvent on one switcher with one payload: the first
\* in context c1 and, once it has returned, the second in context c2, each
\* iterating the registry in an order of its own, while the administrator
\* changes the active gateways.
NextParse ==
    \/ /\ calls["c2"].pc = "idle"
       /\ \E sw \in Switchers, p \in Payloads :
              \E o \in Orders(DOMAIN Registry(sw)) :
                  ParseWebhookEvent("c1", sw, p, o)
    \/ /\ calls["c1"].pc = "done"
       /\ \E o \in Orders(DOMAIN Registry(calls["c1"].sw)) :
              ParseWebhookEvent("c2", calls["c1"].sw, calls["c1"].args.payload, o)
    \/ \E c \in Callers : \E rep \in ProviderReplies : Delegate(c, rep)
    \/ Return("c2")
    \/ calls["c2"].pc = "idle" /\ Return("c1")
    \/ \E sw \in Switchers : \E out \in ResolverOutcomes(sw) : AdminSet(sw, out)

SpecParse == Init /\ [][NextParse]_vars

-----------------------------------------------------------------------------
(* Reading a call's record *)

OfOp(k, op) == SelectSeq(k.trace, LAMBDA e : e.op = op)

\* the adapter invocations, resolver invocations and registry lookups of call k
AdapterEvents(k) == OfOp(k, "adapter")

ResolverEvents(k) == OfOp(k, "resolver")

LookupEvents(k) == OfOp(k, "lookup")

\* what the resolver answered to call k
Answer(k) == ResolverEvents(k)[1].rep

ResolvedOK(k) ==
    /\ Len(ResolverEvents(k)) > 0
    /\ Answer(k).err = NoErr
    /\ Answer(k).name \in DOMAIN Registry(k.sw)

\* the value a method returns beside a failure
ZeroOf(method) ==
    CASE method = "VerifyPayment" -> BoolVal(FALSE)
      [] method = "ActiveGatewayName" -> Str("")
      [] OTHER -> Nil

ResolveAndDelegate == ForwardingMethods \cup {"ActiveGatewayName"}

-----------------------------------------------------------------------------
\* C1: when the resolver returns a registered name n, a forwarding call is
\* delegated, with the caller's arguments and context unchanged, to the
\* adapter stored under key n and to no other, exactly once, and the switcher
\* returns exactly the value and failure that adapter returned.
C1_DelegatesToResolved ==
    \A c \in Callers :
        LET k == calls[c]
            n == Answer(k).name
            ev == AdapterEvents(k)
        IN  (k.pc = "done" /\ k.method \in ForwardingMethods /\ ResolvedOK(k)) =>
                /\ Len(ev) = 1
                /\ ev[1].key = n
                /\ ev[1].method = k.method
                /\ ev[1].args = k.args
                /\ ev[1].ctx = CallerCtx(c)
                /\ k.ret = AdapterCall(k.sw, Registry(k.sw)[n], k.method,
                                       CallerCtx(c), k.args, ev[1].rep)

\* the README scenario: registry {razorpay, paytm}, resolver answers
\* "razorpay", CreateOrder(10000, "INR", "booking_ref_123") returned what the
\* Razorpay adapter returns
C1_Witness ==
    LET k == calls["c1"]
    IN  /\ k.pc = "done" /\ k.method = "CreateOrder"
        /\ DOMAIN gateways = {"razorpay", "paytm"}
        /\ Answer(k).name = "razorpay"
        /\ k.args.req = OrderReqList[1]
        /\ k.ret.err = NoErr
        /\ k.ret.val.GatewayOrderID = "id_1"

\* C2: when the resolver returns a name that is not a key of the registry,
\* every forwarding call and ActiveGatewayName fails with the "not
\* registered" failure naming that identifier, and no adapter is invoked.
C2_UnregisteredFails ==
    \A c \in Callers :
        LET k == calls[c]
        IN  (/\ k.pc # "idle" /\ k.method \in ResolveAndDelegate
             /\ Answer(k).err = NoErr
             /\ Answer(k).name \notin DOMAIN Registry(k.sw)) =>
                /\ k.pc = "done"
                /\ k.ret = Ret(ZeroOf(k.method),
                               NotRegistered(k.sw, Answer(k).name))
                /\ k.ret.err.text = Answer(k).name
                /\ Len(AdapterEvents(k)) = 0

\* resolver answers "stripe" while adapters are registered
C2_Witness ==
    LET k == calls["c1"]
    IN  /\ k.pc = "done" /\ k.method = "InitiatePayout"
        /\ DOMAIN payoutGateways # {}
        /\ Answer(k) = Active("stripe")
        /\ k.ret.err.text = "stripe"

\* C3: when the resolver itself fails, every forwarding call and
\* ActiveGatewayName returns a failure wrapping the resolver's failure,
\* without a registry lookup and without invoking an adapter.
C3_ResolverFailureShortCircuits ==
    \A c \in Callers :
        LET k == calls[c]
        IN  (/\ k.pc # "idle" /\ k.method \in ResolveAndDelegate
             /\ Answer(k).err # NoErr) =>
                /\ k.pc = "done"
                /\ k.ret = Ret(ZeroOf(k.method),
                               Errorf("pg-switcher: resolver error", "",
                                      Answer(k).err))
                /\ Len(LookupEvents(k)) = 0
                /\ Len(AdapterEvents(k)) = 0

C3_Witness ==
    LET k == calls["c1"]
    IN  /\ k.pc = "done" /\ k.method = "ActiveGatewayName"
        /\ DOMAIN Registry(k.sw) # {}
        /\ Answer(k) = ResolverDown
        /\ k.ret.err.cause = ResolverDown.err

-----------------------------------------------------------------------------
\* the keys of the registered adapters that parse payload p without failure
Parsable(sw, p) ==
    {n \in DOMAIN Registry(sw) :
        Gateway_ParseWebhookEvent(Registry(sw)[n], p).err = NoErr}

\* the failure resolve returned to call k
ResolveFailure(k) ==
    IF Answer(k).err # NoErr
    THEN Errorf("pg-switcher: resolver error", "", Answer(k).err)
    ELSE NotRegistered(k.sw, Answer(k).name)

ExhaustionMessages ==
    {"pg-switcher: unable to parse webhook event",
     "pg-switcher: unable to parse payout webhook event"}

\* C4: VerifyWebhookSignature returns true if and only if at least one
\* registered adapter's own check accepts the same (payload, headers),
\* whatever the order in which the registry is visited and whatever the
\* resolver would answer; the resolver is not consulted.
C4_VerifyIffAnyAdapter ==
    \A c \in Callers :
        LET k == calls[c]
            reg == Registry(k.sw)
        IN  (k.pc = "done" /\ k.method = "VerifyWebhookSignature") =>
                /\ k.ret = Ret(BoolVal(\E n \in DOMAIN reg :
                                   Gateway_VerifyWebhookSignature(
                                       reg[n], k.args.payload, k.args.headers)),
                               NoErr)
                /\ Len(ResolverEvents(k)) = 0
                /\ Len(LookupEvents(k)) = 0

\* the first adapter visited rejected the signature, a later one accepted
\* it, and the resolver would not have answered with the accepting adapter
C4_Witness ==
    LET k == calls["c1"]
    IN  /\ k.pc = "done" /\ k.method = "VerifyWebhookSignature"
        /\ k.ret.val = BoolVal(TRUE)
        /\ Len(k.trace) >= 2
        /\ store[k.sw].name # k.trace[Len(k.trace)].key

\* C5: when resolution succeeds, ParseWebhookEvent returns exactly what the
\* resolved adapter's ParseWebhookEvent returns for the payload, event or
\* failure, and no other adapter's parser is invoked.
C5_ParseByResolved ==
    \A c \in Callers :
        LET k == calls[c]
            n == Answer(k).name
            ev == AdapterEvents(k)
        IN  (k.pc = "done" /\ k.method = "ParseWebhookEvent" /\ ResolvedOK(k)) =>
                /\ k.ret = Gateway_ParseWebhookEvent(Registry(k.sw)[n],
                                                     k.args.payload)
                /\ Len(ev) = 1
                /\ ev[1].key = n
                /\ ev[1].method = "ParseWebhookEvent"

\* the resolved adapter failed to parse a payload another adapter parses
C5_Witness ==
    LET k == calls["c1"]
    IN  /\ k.pc = "done" /\ k.method = "ParseWebhookEvent" /\ ResolvedOK(k)
        /\ k.ret.err # NoErr
        /\ Parsable(k.sw, k.args.payload) # {}

\* C6: when resolution fails, ParseWebhookEvent probes registered adapters
\* one after another and returns the event of the first one probed whose
\* parse succeeds; the call succeeds whenever some registered adapter can
\* parse the payload.
C6_FallbackFirstSuccess ==
    \A c \in Callers :
        LET k == calls[c]
            reg == Registry(k.sw)
            p == k.args.payload
            ev == AdapterEvents(k)
            last == ev[Len(ev)].key
        IN  (/\ k.pc = "done" /\ k.method = "ParseWebhookEvent"
             /\ ~ResolvedOK(k) /\ Parsable(k.sw, p) # {}) =>
                /\ Len(ev) >= 1
                /\ \A i, j \in DOMAIN ev :
                       /\ ev[i].key \in DOMAIN reg
                       /\ ev[i].method = "ParseWebhookEvent"
                       /\ ev[i].key = ev[j].key => i = j
                /\ \A i \in 1..(Len(ev) - 1) : ev[i].key \notin Parsable(k.sw, p)
                /\ last \in Parsable(k.sw, p)
                /\ k.ret = Ret(Gateway_ParseWebhookEvent(reg[last], p).val, NoErr)

\* resolver fails, A is probed and fails, B is probed and succeeds
C6_Witness ==
    LET k == calls["c1"]
    IN  /\ k.pc = "done" /\ k.method = "ParseWebhookEvent"
        /\ Answer(k) = ResolverDown
        /\ Len(AdapterEvents(k)) = 2
        /\ k.ret.err = NoErr
        /\ k.ret.val.Type = WebhookEventUnknown

\* C7: when resolution fails and every registered adapter fails to parse,
\* ParseWebhookEvent returns no event and the parse-exhaustion failure,
\* which wraps the resolution failure and is not (and does not wrap) the
\* parse error of any adapter probed.
C7_ExhaustionFailure ==
    \A c \in Callers :
        LET k == calls[c]
            reg == Registry(k.sw)
            p == k.args.payload
        IN  (/\ k.pc = "done" /\ k.method = "ParseWebhookEvent"
             /\ ~ResolvedOK(k) /\ Parsable(k.sw, p) = {}) =>
                /\ k.ret.val = Nil
                /\ k.ret.err.msg \in ExhaustionMessages
                /\ k.ret.err.cause = ResolveFailure(k)
                /\ \A n \in DOMAIN reg :
                       LET e == Gateway_ParseWebhookEvent(reg[n], p).err
                       IN  k.ret.err # e /\ k.ret.err.cause # e

\* every one of several registered adapters was probed and failed
C7_Witness ==
    LET k == calls["c1"]
    IN  /\ k.pc = "done" /\ k.method = "ParseWebhookEvent"
        /\ Cardinality(DOMAIN Registry(k.sw)) >= 2
        /\ Len(AdapterEvents(k)) = Cardinality(DOMAIN Registry(k.sw))
        /\ k.ret.err.msg \in ExhaustionMessages

\* C8: with an empty registry, for every payload, headers and resolver
\* outcome, VerifyWebhookSignature returns false and ParseWebhookEvent
\* returns the parse-exhaustion failure with no event; never a nil event
\* with no failure.
C8_EmptyRegistry ==
    \A c \in Callers :
        LET k == calls[c]
        IN  (k.pc = "done" /\ DOMAIN Registry(k.sw) = {}) =>
                /\ k.method = "VerifyWebhookSignature" =>
                       k.ret = Ret(BoolVal(FALSE), NoErr)
                /\ k.method = "ParseWebhookEvent" =>
                       /\ k.ret.val = Nil
                       /\ k.ret.err # NoErr
                       /\ k.ret.err.msg \in ExhaustionMessages

\* nothing registered, the resolver answers a name, the parse is exhausted
C8_Witness ==
    LET k == calls["c1"]
    IN  /\ k.pc = "done" /\ k.method = "ParseWebhookEvent"
        /\ DOMAIN Registry(k.sw) = {}
        /\ Answer(k).err = NoErr
        /\ k.ret.err.msg \in ExhaustionMessages

-----------------------------------------------------------------------------
\* C9: the active gateway is resolved anew on every forwarding call and no
\* resolution is retained: a call invokes the resolver exactly once, what it
\* resolves is what the resolver answers at that moment, and the call is
\* then delegated to the adapter under that name, whatever earlier calls
\* resolved.
C9_ResolvedAnewOnEveryCall ==
    [][\A c \in Callers :
           LET k == calls[c]
               k2 == calls'[c]
               now == store[k2.sw]
           IN  /\ (k.pc = "idle" /\ k2.pc # "idle"
                   /\ k2.method \in ForwardingMethods) =>
                      /\ Len(ResolverEvents(k2)) = 1
                      /\ Answer(k2) = now
                      /\ (now.err = NoErr /\ now.name \in DOMAIN Registry(k2.sw)) =>
                             /\ k2.pc = "resolved"
                             /\ k2.key = now.name
                             /\ k2.gw = Registry(k2.sw)[now.name]
               /\ (k.pc = "resolved" /\ k2.pc = "done"
                   /\ k.method \in ForwardingMethods) =>
                      /\ Len(ResolverEvents(k2)) = 1
                      /\ Len(AdapterEvents(k2)) = 1
                      /\ AdapterEvents(k2)[1].key = Answer(k).name]_vars

\* the switcher was constructed while the resolver answered "razorpay"; a
\* later call is delegated to the adapter under "paytm"
C9_Witness ==
    LET k == calls["c1"]
    IN  /\ {"razorpay", "paytm"} \subseteq DOMAIN gateways
        /\ k.pc = "done" /\ k.sw = "payment" /\ k.method \in ForwardingMethods
        /\ Answer(k).name = "paytm"
        /\ Len(AdapterEvents(k)) = 1
        /\ AdapterEvents(k)[1].key = "paytm"
        /\ k.ret.err = NoErr

\* the arguments caller c passes to a method
OwnArgs(c, method) ==
    CASE method = "CreateOrder" -> [req |-> Own(c, OrderReqList)]
      [] method = "VerifyPayment" -> [req |-> Own(c, VerifyReqList)]
      [] method = "GetPaymentStatus" -> [id |-> Own(c, OrderIDList)]
      [] method = "InitiateRefund" -> [req |-> Own(c, RefundReqList)]
      [] method = "CreateContact" -> [req |-> Own(c, ContactReqList)]
      [] method = "UpdateContact" ->
             [id |-> Own(c, ContactIDList), req |-> Own(c, ContactReqList)]
      [] method = "CreateFundAccount" -> [req |-> Own(c, FundAccountReqList)]
      [] method = "InitiatePayout" -> [req |-> Own(c, PayoutReqList)]
      [] method = "GetPayoutStatus" -> [id |-> Own(c, PayoutIDList)]

\* C10: under any interleaving of concurrent calls and changes of the
\* active gateway, each call is delegated to the adapter registered under
\* the name its own resolver invocation returned, with its own arguments
\* and context, and returns that adapter's result for them; no call's step
\* waits for another call.
C10_CallsIndependent ==
    \A c \in Callers :
        LET k == calls[c]
            ev == AdapterEvents(k)
            own == OwnArgs(c, k.method)
        IN  /\ k.pc = "idle" => ENABLED CreateOrder(c, Own(c, OrderReqList))
            /\ k.pc = "resolved" => ENABLED Delegate(c, ProviderOK)
            /\ k.pc = "done" => ENABLED Return(c)
            /\ k.pc # "idle" =>
                   /\ k.args = own
                   /\ Len(ResolverEvents(k)) = 1
                   /\ ResolverEvents(k)[1].ctx = CallerCtx(c)
            /\ k.pc = "resolved" =>
                   /\ k.key = Answer(k).name
                   /\ k.gw = Registry(k.sw)[k.key]
            /\ (k.pc = "done" /\ ResolvedOK(k)) =>
                   /\ Len(ev) = 1
                   /\ ev[1].key = Answer(k).name
                   /\ ev[1].args = own
                   /\ ev[1].ctx = CallerCtx(c)
                   /\ k.ret = AdapterCall(k.sw, Registry(k.sw)[Answer(k).name],
                                          k.method, CallerCtx(c), own, ev[1].rep)

\* two overlapping calls on the payment switcher were delegated to
\* different adapters, each with its own request, and the active gateway is
\* no longer the one the first call resolved
C10_Witness ==
    LET k1 == calls["c1"]
        k2 == calls["c2"]
    IN  /\ k1.pc = "done" /\ k2.pc = "done"
        /\ k1.method = "CreateOrder" /\ k2.method = "CreateOrder"
        /\ Len(AdapterEvents(k1)) = 1 /\ Len(AdapterEvents(k2)) = 1
        /\ AdapterEvents(k1)[1].key = "razorpay"
        /\ AdapterEvents(k2)[1].key = "paytm"
        /\ store["payment"] = Active("paytm")
        /\ k1.ret.err = NoErr /\ k2.ret.err = NoErr
        /\ k1.ret.val.Amount = OrderReqList[1].Amount
        /\ k2.ret.val.Amount = OrderReqList[2].Amount

-----------------------------------------------------------------------------
\* C11: after construction no switcher operation adds, removes or replaces
\* a registry entry: no step of any call changes the names registered or
\* the adapter stored under a name, in either switcher.
C11_RegistryReadOnly ==
    [][gateways' = gateways /\ payoutGateways' = payoutGateways]_vars

\* the README's switchers after a webhook parse that ranged over the whole
\* payment registry, the active gateway having been changed since
\* construction
C11_Witness ==
    LET k == calls["c1"]
    IN  /\ gateways = Readme.payment /\ payoutGateways = Readme.payout
        /\ k.pc = "done" /\ k.sw = "payment" /\ k.method = "ParseWebhookEvent"
        /\ Len(AdapterEvents(k)) = 2
        /\ store["payment"] # Active("razorpay")

-----------------------------------------------------------------------------
\* adapter invocation e of call k returned a failure
AdapterFailed(k, e) ==
    /\ e.method \in ForwardingMethods \cup {"ParseWebhookEvent"}
    /\ AdapterCall(k.sw, Registry(k.sw)[e.key], e.method, e.ctx, e.args,
                   e.rep).err # NoErr

\* a failure arose inside call k: the resolver failed, it named an
\* unregistered gateway, or an adapter that was invoked failed
FailureArose(k) ==
    \/ Len(ResolverEvents(k)) > 0 /\ ~ResolvedOK(k)
    \/ \E i \in DOMAIN AdapterEvents(k) : AdapterFailed(k, AdapterEvents(k)[i])

\* C12 as stated: every failure that arises inside a switcher operation is
\* reported to the caller as a failure of that operation; no operation
\* turns it into a successful-looking result.
C12_EveryFailureReported ==
    \A c \in Callers :
        LET k == calls[c]
        IN  (k.pc = "done" /\ FailureArose(k)) => k.ret.err # NoErr

\* C12, amended: every failure that arises inside a forwarding method or
\* ActiveGatewayName is reported to the caller as that operation's failure.
\* ClientCredentials and IsManual have no failure result and answer a
\* failed resolution with the empty mapping and false; ParseWebhookEvent
\* reports the resolved adapter's parse failure, and after a failed
\* resolution it fails exactly when no registered adapter parses the
\* payload.
C12_FailuresReportedOrDegraded ==
    \A c \in Callers :
        LET k == calls[c]
        IN  (k.pc = "done" /\ FailureArose(k)) =>
                CASE k.method \in ResolveAndDelegate -> k.ret.err # NoErr
                  [] k.method = "ClientCredentials" ->
                         k.ret = Ret(MapVal({}), NoErr)
                  [] k.method = "IsManual" ->
                         k.ret = Ret(BoolVal(FALSE), NoErr)
                  [] k.method = "ParseWebhookEvent" ->
                         IF ResolvedOK(k) THEN k.ret.err # NoErr
                         ELSE (k.ret.err # NoErr) <=>
                                  (Parsable(k.sw, k.args.payload) = {})

\* the provider was unreachable in a delegated InitiatePayout, and the
\* switcher's caller got that failure
C12_Witness ==
    LET k == calls["c1"]
    IN  /\ k.pc = "done" /\ k.method = "InitiatePayout" /\ ResolvedOK(k)
        /\ Len(AdapterEvents(k)) = 1
        /\ AdapterEvents(k)[1].key = "razorpayx"
        /\ AdapterEvents(k)[1].rep = ProviderDown
        /\ k.ret.err # NoErr

-----------------------------------------------------------------------------
\* C13: ClientCredentials resolves the active gateway once, with the
\* background context; on successful resolution it returns exactly the
\* resolved adapter's ClientCredentials mapping, and on a resolver failure
\* or an unregistered name it returns an empty, non-nil mapping, reports no
\* failure and invokes no adapter.
C13_ClientCredentialsDegrades ==
    \A c \in Callers :
        LET k == calls[c]
            ev == AdapterEvents(k)
        IN  (k.pc # "idle" /\ k.method = "ClientCredentials") =>
                /\ Len(ResolverEvents(k)) = 1
                /\ ResolverEvents(k)[1].ctx = Background
                /\ (k.pc = "done" /\ ResolvedOK(k)) =>
                       /\ Len(ev) = 1
                       /\ ev[1].key = Answer(k).name
                       /\ ev[1].method = "ClientCredentials"
                       /\ k.ret = Ret(PaymentGateway_ClientCredentials(
                                          gateways[Answer(k).name]), NoErr)
                /\ ~ResolvedOK(k) =>
                       /\ k.pc = "done"
                       /\ k.ret = Ret(MapVal({}), NoErr)
                       /\ k.ret.val # Nil
                       /\ Len(ev) = 0

\* the resolver failed and ClientCredentials answered with the empty mapping
C13_Witness ==
    LET k == calls["c1"]
    IN  /\ k.pc = "done" /\ k.method = "ClientCredentials"
        /\ gateways = Readme.payment
        /\ Answer(k) = ResolverDown
        /\ k.ret = Ret(MapVal({}), NoErr)

-----------------------------------------------------------------------------
(* Cancellation *)

\* errors.Is(err, target): target is err or is wrapped by it
RECURSIVE IsErr(_, _)
IsErr(err, target) ==
    /\ err # NoErr
    /\ err = target \/ IsErr(err.cause, target)

\* the adapter methods that call the provider over the network
NetworkIO(gw, method) ==
    \/ gw.kind = "razorpay"
       /\ method \in {"CreateOrder", "GetPaymentStatus", "InitiateRefund"}
    \/ gw.kind = "paytm"
       /\ method \in {"CreateOrder", "VerifyPayment", "GetPaymentStatus"}
    \/ gw.kind = "razorpayx"
       /\ method \in {"CreateContact", "UpdateContact", "CreateFundAccount",
                      "InitiatePayout", "GetPayoutStatus"}

\* C14: in every resolve-and-delegate method the resolver and the delegated
\* adapter method are given the caller's own context, so that a call whose
\* context was cancelled before its delegated provider call ends with that
\* call cancelled: the caller gets the cancellation failure.
C14_CallerContextCancelsDelegate ==
    \A c \in Callers :
        LET k == calls[c]
            ev == AdapterEvents(k)
        IN  (k.pc # "idle" /\ k.method \in ResolveAndDelegate) =>
                /\ ResolverEvents(k)[1].ctx = CallerCtx(c)
                /\ (k.pc = "done" /\ k.method \in ForwardingMethods
                    /\ ResolvedOK(k)) =>
                       /\ ev[1].ctx = CallerCtx(c)
                       /\ (c \in cancelled
                           /\ NetworkIO(Registry(k.sw)[ev[1].key], k.method)) =>
                              IsErr(k.ret.err, ContextCanceled)

\* C15: every adapter method that performs network I/O, called with a
\* cancelled context, aborts the provider call and returns a cancellation
\* failure, whatever the provider would have replied; this holds for each
\* registered Razorpay, RazorpayX and Paytm adapter.
C15_AdaptersHonourCancellation ==
    \A c \in cancelled, sw \in Switchers :
        \A n \in DOMAIN Registry(sw), method \in ForwardingMethods :
            LET gw == Registry(sw)[n]
            IN  NetworkIO(gw, method) =>
                    \A rep \in ProviderReplies :
                        IsErr(AdapterCall(sw, gw, method, CallerCtx(c),
                                          OwnArgs(c, method), rep).err,
                              ContextCanceled)

-----------------------------------------------------------------------------
\* C16: on successful resolution ActiveGatewayName returns the registry key
\* the resolver returned, the name under which a forwarding call made with
\* the same resolver outcome finds its adapter, also when the adapter's own
\* Name() differs from that key; on a resolver failure or an unregistered
\* name it returns the empty string and the failure of resolve.
C16_ActiveNameIsRegistryKey ==
    \A c \in Callers :
        LET k == calls[c]
        IN  (k.pc = "done" /\ k.method = "ActiveGatewayName") =>
                IF ResolvedOK(k)
                THEN /\ k.ret = Ret(Str(Answer(k).name), NoErr)
                     /\ k.ret.val.s \in DOMAIN Registry(k.sw)
                     /\ Registry(k.sw)[k.ret.val.s] = Registry(k.sw)[Answer(k).name]
                ELSE k.ret = Ret(Str(""), ResolveFailure(k))

-----------------------------------------------------------------------------
\* the secret adapter gw is configured with for webhooks
Secret(gw) ==
    CASE gw.kind \in {"razorpay", "paytm", "razorpayx"} -> gw.cfg.WebhookSecret
      [] gw.kind = "paytm_payout" -> gw.cfg.MerchantKey
      [] gw.kind = "manual" -> ""

\* some header carries the HMAC of the payload under gw's secret
SignedFor(gw, payload, headers) ==
    \E h \in DOMAIN headers :
        /\ headers[h].kind = "mac"
        /\ headers[h].key = Secret(gw)
        /\ headers[h].data = payload

\* C17: an adapter's VerifyWebhookSignature returns true only if the
\* signature in the headers is the HMAC of the payload under that adapter's
\* configured secret, for every adapter; hence the switcher authenticates
\* no payload that no registered adapter's secret signs.
C17_OnlyHmacAuthenticates ==
    \A c \in Callers :
        LET k == calls[c]
            reg == Registry(k.sw)
        IN  (k.pc = "done" /\ k.method = "VerifyWebhookSignature") =>
                /\ \A i \in DOMAIN k.trace :
                       Gateway_VerifyWebhookSignature(reg[k.trace[i].key],
                           k.args.payload, k.args.headers) =>
                           SignedFor(reg[k.trace[i].key], k.args.payload,
                                     k.args.headers)
                /\ k.ret.val.b =>
                       \E n \in DOMAIN reg :
                           SignedFor(reg[n], k.args.payload, k.args.headers)

-----------------------------------------------------------------------------
\* strings.ToLower on the letters header names are written with
LowerChar(ch) ==
    CASE ch = "X" -> "x" [] ch = "R" -> "r" [] ch = "S" -> "s"
      [] ch = "P" -> "p" [] OTHER -> ch

RECURSIVE ToLower(_)
ToLower(s) ==
    IF Len(s) = 0 THEN s
    ELSE LowerChar(SubSeq(s, 1, 1)) \o ToLower(SubSeq(s, 2, Len(s)))

\* two header mappings that differ at most in the letter case of the names
SameUpToCase(h1, h2) ==
    {<<ToLower(n), h1[n]>> : n \in DOMAIN h1}
        = {<<ToLower(n), h2[n]>> : n \in DOMAIN h2}

\* C18: header names are case-insensitive in webhook verification: for
\* every payload and every two header mappings that differ only in the
\* letter case of their names, VerifyWebhookSignature of each adapter and
\* of the switcher returns the same boolean.
C18_HeaderCaseInsensitive ==
    \A c \in Callers :
        LET k == calls[c]
            reg == Registry(k.sw)
            p == k.args.payload
            h == k.args.headers
        IN  (k.pc = "done" /\ k.method = "VerifyWebhookSignature") =>
                \A h2 \in HeadersFor(p) :
                    SameUpToCase(h, h2) =>
                        /\ \A n \in DOMAIN reg :
                               Gateway_VerifyWebhookSignature(reg[n], p, h)
                                   = Gateway_VerifyWebhookSignature(reg[n], p, h2)
                        /\ \A o \in Orders(DOMAIN reg) :
                               VerifyLoop(reg, o, p, h2).ok = k.ret.val.b

-----------------------------------------------------------------------------
\* every top-level field of the decoded payload is in raw, unchanged
Recoverable(payload, raw) ==
    /\ raw.t = "obj"
    /\ \A f \in DOMAIN payload.f :
           f \in DOMAIN raw.f /\ raw.f[f] = payload.f[f]

\* C19: for every payload an adapter parses successfully, Raw of the
\* returned event is a lossless copy of the whole decoded payload: every
\* top-level field of the payload, the event name included, is recovered
\* from Raw; for the Razorpay, Paytm, RazorpayX and Paytm Payouts adapters.
C19_RawIsLosslessCopy ==
    \A c \in Callers :
        LET k == calls[c]
            reg == Registry(k.sw)
        IN  (k.pc = "done" /\ k.method = "ParseWebhookEvent") =>
                /\ \A n \in DOMAIN reg :
                       LET r == Gateway_ParseWebhookEvent(reg[n], k.args.payload)
                       IN  (r.err = NoErr /\ k.args.payload.t = "obj") =>
                               Recoverable(k.args.payload, r.val.Raw)
                /\ (k.ret.err = NoErr /\ k.args.payload.t = "obj") =>
                       Recoverable(k.args.payload, k.ret.val.Raw)


\* the resolved InitiatePayout calls carrying request q whose adapter has not
\* been invoked yet
PendingPayouts(q) ==
    {c \in Callers : /\ calls[c].pc = "resolved"
                     /\ calls[c].method = "InitiatePayout"
                     /\ calls[c].args.req = q}

\* C20: the payout switcher passes every InitiatePayout through without
\* deduplication: for every request, the number of times the adapters received
\* exactly that request (ReferenceID and all other fields unchanged), plus the
\* resolved calls still to be delegated, is the number of resolved
\* InitiatePayout calls that carried it, however often the same ReferenceID is
\* repeated; every invocation went to a registered adapter; and the RazorpayX
\* adapter puts the ReferenceID on the wire both as reference_id and as the
\* idempotency key.
C20_PayoutPassThrough ==
    payouts.on =>
        /\ \A i \in DOMAIN payouts.sent :
               \E j \in DOMAIN payouts.issued :
                   payouts.sent[i].req = payouts.issued[j]
        /\ \A j \in DOMAIN payouts.issued :
               LET q == payouts.issued[j]
               IN  Cardinality({i \in DOMAIN payouts.sent :
                                   payouts.sent[i].req = q})
                     + Cardinality(PendingPayouts(q))
                       = Cardinality({i \in DOMAIN payouts.issued :
                                         payouts.issued[i] = q})
        /\ \A i \in DOMAIN payouts.sent :
               LET e == payouts.sent[i]
               IN  /\ e.key \in DOMAIN payoutGateways
                   /\ payoutGateways[e.key].kind = "razorpayx" =>
                          /\ e.wire.body.reference_id = e.req.ReferenceID
                          /\ e.wire.headers.XPayoutIdempotency = e.req.ReferenceID

\* three resolved InitiatePayout calls carried the same ReferenceID and the
\* adapters were invoked three times with it, the RazorpayX adapter at least
\* twice and another adapter after the stored name changed
C20_Witness ==
    /\ payouts.on
    /\ Len(payouts.issued) = 3
    /\ Len(payouts.sent) = 3
    /\ \A i \in DOMAIN payouts.sent :
           payouts.sent[i].req.ReferenceID = "payout_uuid_1"
    /\ payouts.sent[1].key = "razorpayx"
    /\ payouts.sent[2].key = "razorpayx"
    /\ payouts.sent[3].key # "razorpayx"
    /\ payouts.sent[1].wire.headers.XPayoutIdempotency = "payout_uuid_1"

-----------------------------------------------------------------------------
\* C21: a forwarding call that resolved successfully has invoked one adapter
\* method once; when that invocation failed, the switcher's failure is the
\* adapter's failure itself (neither wrapped nor replaced), the value beside
\* it is the adapter's, and there is no further invocation, of that adapter
\* or of any other.
C21_AdapterFailurePassedThroughNoRetry ==
    \A c \in Callers :
        LET k == calls[c]
            ev == AdapterEvents(k)
            r == AdapterCall(k.sw, k.gw, k.method, k.ctx, k.args, ev[1].rep)
        IN  (k.pc = "done" /\ k.method \in ForwardingMethods /\ ResolvedOK(k)) =>
                /\ Cardinality({i \in DOMAIN k.trace :
                                   k.trace[i].op = "adapter"}) = 1
                /\ r.err # NoErr =>
                       /\ k.ret.err = r.err
                       /\ k.ret.err.cause = r.err.cause
                       /\ k.ret.val = r.val
                       /\ k.trace[Len(k.trace)].op = "adapter"

\* a forwarding call on a switcher with two registered adapters resolved to
\* one of them, whose provider was unreachable: the call returned that
\* adapter's failure
C21_Witness ==
    LET k == calls["c1"]
    IN  /\ k.pc = "done" /\ k.method = "InitiateRefund"
        /\ ResolvedOK(k)
        /\ Cardinality(DOMAIN gateways) = 2
        /\ Len(AdapterEvents(k)) = 1
        /\ AdapterEvents(k)[1].rep = ProviderDown
        /\ k.ret.err # NoErr

-----------------------------------------------------------------------------
\* the registry keys of switcher sw whose adapter reports a name other than
\* its key
Misnamed(sw) ==
    {n \in DOMAIN Registry(sw) : Gateway_Name(Registry(sw)[n]) # n}

\* C22: dispatch is by registry key only.  For an adapter stored under key n
\* that reports another name m: when the resolver answers n, a forwarding
\* call is delegated to that adapter; when the resolver answers m and m is
\* no registry key, the call fails with the "not registered" failure naming
\* m and no adapter is invoked.
C22_DispatchByKeyOnly ==
    \A c \in Callers :
        LET k == calls[c]
            ev == AdapterEvents(k)
        IN  (/\ k.pc = "done" /\ k.method \in ForwardingMethods
             /\ Len(ResolverEvents(k)) > 0 /\ Answer(k).err = NoErr) =>
                \A n \in Misnamed(k.sw) :
                    LET m == Gateway_Name(Registry(k.sw)[n])
                    IN  /\ Answer(k).name = n =>
                               /\ Len(ev) = 1
                               /\ ev[1].key = n
                               /\ k.gw = Registry(k.sw)[n]
                               /\ k.ret = AdapterCall(k.sw, Registry(k.sw)[n],
                                                      k.method, k.ctx, k.args,
                                                      ev[1].rep)
                        /\ (Answer(k).name = m /\ m \notin DOMAIN Registry(k.sw)) =>
                               /\ Len(ev) = 0
                               /\ k.ret.err = NotRegistered(k.sw, m)
                               /\ k.ret.err.text = m
                               /\ k.ret.val = ZeroOf(k.method)

\* the Razorpay adapter is registered under the key "paytm" alone and the
\* resolver answered "razorpay", the name that adapter reports: CreateOrder
\* failed with the "not registered" failure naming "razorpay"
C22_Witness ==
    LET k == calls["c1"]
    IN  /\ k.pc = "done" /\ k.method = "CreateOrder"
        /\ DOMAIN gateways = {"paytm"}
        /\ Gateway_Name(gateways["paytm"]) = "razorpay"
        /\ Answer(k) = Active("razorpay")
        /\ Len(AdapterEvents(k)) = 0
        /\ k.ret.err.text = "razorpay"

\* the same registry, the resolver answered the key "paytm": the call reached
\* the adapter that reports the name "razorpay"
C22_WitnessByKey ==
    LET k == calls["c1"]
    IN  /\ k.pc = "done" /\ k.method = "CreateOrder"
        /\ DOMAIN gateways = {"paytm"}
        /\ Answer(k) = Active("paytm")
        /\ Len(AdapterEvents(k)) = 1
        /\ Gateway_Name(k.gw) = "razorpay"
        /\ k.ret.err = NoErr

-----------------------------------------------------------------------------
\* the provider event names and statuses the adapters translate to a concrete
\* event type
RazorpayEvents ==
    {"payment.captured", "payment.failed", "order.paid", "refund.processed",
     "refund.failed", "payment.dispute.created", "payment.dispute.won",
     "payment.dispute.lost", "payment.dispute.closed"}

PaytmStatuses == {"TXN_SUCCESS", "TXN_FAILURE"}

RazorpayXEvents ==
    {"payout.processed", "payout.failed", "payout.rejected", "payout.reversed"}

\* the payload's event (Razorpay, RazorpayX) or transaction status (Paytm)
\* is one that adapter gw translates to a concrete event type
MapsToConcrete(gw, payload) ==
    LET event == Member(payload, "event")
        status == Member(Member(payload, "body"), "txnStatus")
    IN  CASE gw.kind = "razorpay" -> event.t = "str" /\ event.s \in RazorpayEvents
          [] gw.kind = "paytm" -> status.t = "str" /\ status.s \in PaytmStatuses
          [] gw.kind = "razorpayx" ->
                 /\ event.t = "str"
                 /\ \/ event.s \in RazorpayXEvents
                    \/ HasSuffix(event.s, "payout.failed")
          [] OTHER -> FALSE

UnknownTypes == {WebhookEventUnknown, PayoutWebhookEventUnknown}

\* C23: the unknown event type is returned only by a parse that succeeded on
\* a payload whose event or status the parsing adapter translates to no
\* concrete type; a parse that failed, in an adapter that was tried or in
\* the switcher as a whole, returns a failure and no event.
C23_UnknownOnlyOnSuccessfulParse ==
    \A c \in Callers :
        LET k == calls[c]
            ev == AdapterEvents(k)
            reg == Registry(k.sw)
            by == reg[ev[Len(ev)].key]
        IN  (k.pc = "done" /\ k.method = "ParseWebhookEvent") =>
                /\ k.ret.err # NoErr => k.ret.val = Nil
                /\ \A i \in DOMAIN ev :
                       LET r == Gateway_ParseWebhookEvent(reg[ev[i].key],
                                                          k.args.payload)
                       IN  r.err # NoErr => r.val = Nil
                /\ k.ret.err = NoErr =>
                       /\ k.ret.val # Nil
                       /\ Len(ev) > 0
                       /\ k.ret = Gateway_ParseWebhookEvent(by, k.args.payload)
                       /\ k.ret.val.Type \in UnknownTypes =>
                              ~MapsToConcrete(by, k.args.payload)
                       /\ k.ret.val.Type \notin UnknownTypes =>
                              MapsToConcrete(by, k.args.payload)

\* the resolver failed, the Razorpay adapter could not decode a payload whose
\* event is a number, and the Paytm adapter parsed it to an event of unknown
\* type, which the payment switcher returned
C23_Witness ==
    LET k == calls["c1"]
    IN  /\ k.pc = "done" /\ k.method = "ParseWebhookEvent"
        /\ k.sw = "payment"
        /\ k.args.payload = PEventNumber
        /\ Len(AdapterEvents(k)) = 2
        /\ AdapterEvents(k)[1].key = "razorpay"
        /\ AdapterEvents(k)[2].key = "paytm"
        /\ k.ret.err = NoErr
        /\ k.ret.val.Type = WebhookEventUnknown

\* every adapter failed to parse: the switcher returned a failure and no event
C23_WitnessFailure ==
    LET k == calls["c1"]
    IN  /\ k.pc = "done" /\ k.method = "ParseWebhookEvent"
        /\ k.args.payload = PInvalid
        /\ Len(AdapterEvents(k)) = 2
        /\ k.ret.err # NoErr
        /\ k.ret.val = Nil

-----------------------------------------------------------------------------
\* C24: when the switcher's VerifyWebhookSignature returned true for
\* (payload, headers) and its ParseWebhookEvent then returned an event for
\* the same payload, the adapter that produced the event is a registered
\* adapter whose own signature check accepts (payload, headers).
C24_ParsedByAuthenticatingAdapter ==
    LET v == calls["c1"]
        k == calls["c2"]
        ev == AdapterEvents(k)
        by == Registry(k.sw)[ev[Len(ev)].key]
    IN  (/\ v.pc = "done" /\ v.method = "VerifyWebhookSignature"
         /\ v.ret.val.b
         /\ k.pc = "done" /\ k.method = "ParseWebhookEvent"
         /\ k.sw = v.sw /\ k.args.payload = v.args.payload
         /\ k.ret.err = NoErr) =>
            /\ Len(ev) > 0
            /\ ev[Len(ev)].key \in DOMAIN Registry(k.sw)
            /\ Gateway_VerifyWebhookSignature(by, v.args.payload, v.args.headers)

\* a Razorpay webhook signed with the Razorpay secret was found valid, the
\* active gateway had been switched to "paytm", and the Paytm adapter, which
\* rejects that signature, produced the event
C24_SwitchedParse ==
    LET v == calls["c1"]
        k == calls["c2"]
    IN  /\ DOMAIN gateways = {"razorpay", "paytm"}
        /\ v.pc = "done" /\ v.method = "VerifyWebhookSignature"
        /\ v.args.payload = PRazorpayCaptured
        /\ v.args.headers = ("x-razorpay-signature" :>
                                 Hmac("hex", "whsec_rzp", PRazorpayCaptured))
        /\ v.ret.val.b
        /\ k.pc = "done" /\ k.method = "ParseWebhookEvent"
        /\ k.args.payload = PRazorpayCaptured
        /\ Len(AdapterEvents(k)) = 1
        /\ AdapterEvents(k)[1].key = "paytm"
        /\ k.ret.err = NoErr
        /\ k.ret.val.Type = WebhookEventUnknown
        /\ ~Gateway_VerifyWebhookSignature(gateways["paytm"], v.args.payload,
                                           v.args.headers)

-----------------------------------------------------------------------------
\* C25: an adapter whose signing secret is the empty string authenticates
\* no webhook, whatever the payload and the headers; hence a switcher whose
\* registered adapters all lack a secret rejects every webhook.
C25_NoSecretNoAuthentication ==
    \A c \in Callers :
        LET k == calls[c]
            reg == Registry(k.sw)
        IN  (k.pc = "done" /\ k.method = "VerifyWebhookSignature") =>
                /\ \A n \in DOMAIN reg :
                       Secret(reg[n]) = "" =>
                           ~Gateway_VerifyWebhookSignature(reg[n], k.args.payload,
                                                           k.args.headers)
                /\ (\A n \in DOMAIN reg : Secret(reg[n]) = "") => ~k.ret.val.b

\* the payment switcher's adapters were all constructed without a webhook
\* secret, and it found valid a delivery whose x-razorpay-signature is the
\* HMAC of the payload under the empty key
C25_EmptyKeyAccepted ==
    LET k == calls["c1"]
    IN  /\ k.pc = "done" /\ k.method = "VerifyWebhookSignature"
        /\ k.sw = "payment"
        /\ DOMAIN gateways = {"razorpay", "paytm"}
        /\ \A n \in DOMAIN gateways : Secret(gateways[n]) = ""
        /\ k.args.headers = ("x-razorpay-signature" :>
                                 Hmac("hex", "", k.args.payload))
        /\ k.ret.val.b

-----------------------------------------------------------------------------
\* C26: two runs of ParseWebhookEvent on the same switcher, with the same
\* payload and the same answer of the resolver, return the same event or the
\* same failure, whatever the order in which each run iterates the registry.
C26_ParseDeterministic ==
    LET k1 == calls["c1"]
        k2 == calls["c2"]
    IN  (/\ k1.pc = "done" /\ k1.method = "ParseWebhookEvent"
         /\ k2.pc = "done" /\ k2.method = "ParseWebhookEvent"
         /\ k1.sw = k2.sw /\ k1.args.payload = k2.args.payload
         /\ Answer(k1) = Answer(k2)) =>
            k1.ret = k2.ret

\* the resolver was down for both runs, the registry holds the Razorpay and
\* the Paytm adapter, which both decode the Razorpay payload: one run
\* returned the Razorpay adapter's event, the other the Paytm adapter's
C26_OrderDecides ==
    LET k1 == calls["c1"]
        k2 == calls["c2"]
    IN  /\ DOMAIN gateways = {"razorpay", "paytm"}
        /\ k1.pc = "done" /\ k1.method = "ParseWebhookEvent"
        /\ k2.pc = "done" /\ k2.method = "ParseWebhookEvent"
        /\ k1.sw = "payment" /\ k2.sw = "payment"
        /\ k1.args.payload = PRazorpayCaptured
        /\ k2.args.payload = PRazorpayCaptured
        /\ Answer(k1) = ResolverDown /\ Answer(k2) = ResolverDown
        /\ AdapterEvents(k1)[Len(AdapterEvents(k1))].key = "razorpay"
        /\ AdapterEvents(k2)[Len(AdapterEvents(k2))].key = "paytm"
        /\ k1.ret.val.Type = WebhookEventPaymentSuccess
        /\ k2.ret.val.Type = WebhookEventUnknown
====
